---- MODULE Spec2Model ----
(***************************************************************************)
(* A state-machine model of discord-bot-cli (discord_bot_cli/*.py):        *)
(*   - DiscordBot.on_message: the handler registry and dispatch loop       *)
(*   - FileHandler: the input mailbox file (poll + watch detection)        *)
(*   - ServiceHandler: script cache, command resolution, child processes   *)
(*   - SocketHandler: the length-prefixed request/response loop            *)
(* Each subsystem has its own next-state relation and specification; the   *)
(* variables of the other subsystems stay at their initial values.         *)
(* asyncio is single-threaded and cooperative: an action is the code that  *)
(* runs between two suspension points (await on real I/O).                 *)
(***************************************************************************)
EXTENDS Integers, Sequences, FiniteSets, TLC

(***************************************************************************)
(* Bounds                                                                  *)
(***************************************************************************)
MaxHandlers == 2
MaxMsgs == 2
MaxWrites == 2
MaxSends == 3
MaxCmds == 1
MaxDirChanges == 2
MaxStarts == 1
MaxConns == 2
MaxFrames == 2
MaxText == 5

(***************************************************************************)
(* Generic helpers                                                         *)
(***************************************************************************)
Range(s) == {s[i] : i \in DOMAIN s}

VARIABLES
    \* ---- DiscordBot (bot.py)
    channel_id,        \* config.bot.channel_id, 0 models None
    message_handlers,  \* DiscordBot.message_handlers
    bot_started,       \* DiscordBotCLI.start reached self.bot.start()
    dispatch,          \* per inbound message: position of its on_message task
    invoked,           \* history: per message, the handler calls made, in order
    finished,          \* history: per message, the outcome of each call, in order
    bot_state,         \* DiscordBot.is_running and the client's ready flag
    \* ---- chat-send interface (DiscordBot.send_message)
    sent,              \* history: the texts the adapters sent successfully, in order
    \* ---- FileHandler (io_handlers.py)
    file_running,      \* FileHandler.running
    input_file,        \* content of config.file.input_file
    detect,            \* per detection task: its position in _process_input_file
    writes,            \* history: number of writes made to the mailbox file
    last_processed,    \* history: per detection task, how its last processing ended
    observer,          \* FileHandler.observer: the watchdog thread and its event queue
    \* ---- ServiceHandler (service.py)
    allowed_commands,  \* config.service.allowed_commands
    script_dir,        \* the entries of config.service.script_directory
    dir_exists,        \* whether the script directory exists
    dir_changes,       \* number of changes other programs made to the directory
    service_running,   \* ServiceHandler.running
    script_cache,      \* ServiceHandler.script_cache (its keys; each path is dir/name)
    req,               \* per execution request: position, command, result, child,
                       \* history: what its lookup was answered from and
                       \* whether its response reached the channel
    last_load,         \* history: what the last _load_scripts found and left
    \* ---- SocketHandler (io_handlers.py)
    sock_running,      \* SocketHandler.running
    sock_starts,       \* number of calls of SocketHandler.start
    socket_file,       \* what exists at config.socket.socket_path
    conn,              \* per connection: position of _handle_client, reader buffer
    wire,              \* per connection: bytes the client wrote, not yet received
    client,            \* per connection: what the client has done so far
    frames_sent,       \* history: payloads of the whole frames the client wrote
    decoded,           \* history: the message_data the server took for frames
    replies,           \* history: the reply frames the server wrote
    \* ---- one message on its way through ServiceHandler._handle_service_message
    route,             \* the configured prefix, the message text, what was delegated
    \* ---- the consumers of inbound messages (main.py, io_handlers.py, service.py)
    inbound,           \* per inbound message: its author, channel and text
    stdout,            \* the characters printed by StdinHandler.write_stdout
    output_file,       \* whether config.file.output_file is set, the file's content
    routed,            \* history: per message, what _handle_service_message did
    \* ---- DiscordBotCLI (main.py) and StdinHandler (io_handlers.py)
    life               \* which adapters are enabled, where start() and the
                       \* shutdown() tasks are, SocketHandler.server,
                       \* StdinHandler.running and its read loop, history: the
                       \* stop() calls made per adapter, whether one raised

botVars == <<channel_id, message_handlers, bot_started, dispatch, invoked, finished>>
fileVars == <<file_running, input_file, detect, writes, last_processed, observer>>

svcVars == <<allowed_commands, script_dir, dir_exists, dir_changes, service_running,
             script_cache, req, last_load>>

sockVars == <<sock_running, sock_starts, socket_file, conn, wire, client, frames_sent, decoded,
              replies>>

fanVars == <<inbound, stdout, output_file, routed>>

vars == <<botVars, bot_state, sent, fileVars, svcVars, sockVars, route, life, fanVars>>

\* what the actions of one subsystem leave alone
notBot == <<bot_state, sent, fileVars, svcVars, sockVars, route, life, fanVars>>
notFile == <<botVars, bot_state, svcVars, sockVars, route, life, fanVars>>
notSvc == <<channel_id, bot_started, dispatch, invoked, finished, bot_state, fileVars,
            sockVars, route, life, fanVars>>
notSock == <<botVars, bot_state, sent, fileVars, svcVars, route, life, fanVars>>
notRoute == <<botVars, bot_state, sent, fileVars, svcVars, sockVars, life, fanVars>>
notFan == <<channel_id, message_handlers, bot_started, finished, bot_state, fileVars,
            svcVars, sockVars, route, life>>

\* what neither DiscordBotCLI.start, nor shutdown, nor the console read loop
\* touches
notLife == <<channel_id, bot_started, dispatch, invoked, finished, bot_state, input_file, writes,
             last_processed, allowed_commands, script_dir, dir_changes, req, conn, wire,
             client, frames_sent, decoded, replies, route, fanVars>>

(***************************************************************************)
(* DiscordBot: registry and dispatch                                       *)
(***************************************************************************)
\* The callables that can be registered.  handle_discord_message (main.py)
\* and _handle_service_message (service.py) are coroutine functions; sync_cb
\* stands for a plain function, which on_message calls without awaiting.
Handlers == {"handle_discord_message", "_handle_service_message", "sync_cb"}

iscoroutinefunction(h) == h # "sync_cb"

MsgIds == 1..MaxMsgs
BotUser == "bot"
Authors == {BotUser, "alice"}
Channels == {1, 2}

\* What a handler call can do: return, or raise an Exception.
Outcomes == {"return", "raise"}

\* try: ... except Exception as e: logging.error(...)   (bot.py 70-76)
ExceptionEscapes_NoTry(outcome) == outcome = "raise"
ExceptionEscapes(outcome) == FALSE

\* for handler in self.message_handlers: the k-th iteration takes element k
HandlerAt_Reversed(hs, k) == hs[Len(hs) - k + 1]
HandlerAt(hs, k) == hs[k]

\* the two early returns of on_message (bot.py 61-66)
Filtered_ChannelOnly(author, channel) == channel_id # 0 /\ channel # channel_id
Filtered(author, channel) ==
    \/ author = BotUser
    \/ (channel_id # 0 /\ channel # channel_id)

NoDispatch == [st |-> "none", k |-> 0]

BotInit ==
    /\ channel_id \in {0, 1}
    /\ message_handlers = <<>>
    /\ bot_started = FALSE
    /\ bot_state = [is_running |-> FALSE, is_ready |-> FALSE]
    /\ dispatch = [m \in MsgIds |-> NoDispatch]
    /\ invoked = [m \in MsgIds |-> <<>>]
    /\ finished = [m \in MsgIds |-> <<>>]

\* DiscordBot.add_message_handler.  The bridge registers its consumers in
\* DiscordBotCLI.__init__ and ServiceHandler.start, both before bot.start().
add_message_handler(h) ==
    /\ ~bot_started
    /\ Len(message_handlers) < MaxHandlers
    /\ message_handlers' = Append(message_handlers, h)
    /\ UNCHANGED <<channel_id, bot_started, dispatch, invoked, finished, notBot>>

\* DiscordBotCLI.start: await self.bot.start()
bot_start ==
    /\ ~bot_started
    /\ bot_started' = TRUE
    /\ UNCHANGED <<channel_id, message_handlers, dispatch, invoked, finished, notBot>>

\* the actions of the chat client's lifecycle events leave the rest alone
notFlags == <<botVars, sent, fileVars, svcVars, sockVars, route, life, fanVars>>

\* on_ready: the client has set its ready flag before it dispatches the
\* event; self.is_running = True (no ready handler is ever registered)
on_ready ==
    /\ bot_state' = [is_running |-> TRUE, is_ready |-> TRUE]
    /\ UNCHANGED notFlags

\* on_disconnect: self.is_running = False; the client keeps its ready flag
\* or has cleared it (cleared)
on_disconnect(cleared) ==
    /\ bot_state' = [is_running |-> FALSE, is_ready |-> bot_state.is_ready /\ ~cleared]
    /\ UNCHANGED notFlags

\* DiscordBot.stop: self.is_running = False; bot.close() clears the ready flag
bot_stop ==
    /\ bot_state' = [is_running |-> FALSE, is_ready |-> FALSE]
    /\ UNCHANGED notFlags

\* DiscordBot.is_connected: return self.bot.is_ready() and self.is_running
is_connected_ReadyOnly == bot_state.is_ready
is_connected == bot_state.is_ready /\ bot_state.is_running

\* on_message is entered for a new inbound message; the filter runs.
on_message(m, author, channel) ==
    /\ bot_started
    /\ dispatch[m].st = "none"
    /\ \A m2 \in MsgIds : m2 < m => dispatch[m2].st # "none"
    /\ dispatch' = [dispatch EXCEPT ![m] =
                      IF Filtered(author, channel)
                      THEN [st |-> "filtered", k |-> 0]
                      ELSE [st |-> "loop", k |-> 1]]
    /\ UNCHANGED <<channel_id, message_handlers, bot_started, invoked, finished, notBot>>

\* One handler call ends with the given outcome: the except clause swallows
\* the exception and the loop goes on, or the exception leaves on_message.
AfterCall(m, outcome) ==
    IF ExceptionEscapes(outcome)
    THEN [dispatch EXCEPT ![m].st = "raised"]
    ELSE [dispatch EXCEPT ![m].st = "loop", ![m].k = @ + 1]

\* One iteration of the for loop up to its first suspension: a coroutine
\* function is awaited (the task suspends inside it), a plain function runs
\* to its end at once.
call_handler(m) ==
    /\ dispatch[m].st = "loop"
    /\ dispatch[m].k <= Len(message_handlers)
    /\ LET k == dispatch[m].k
           h == HandlerAt(message_handlers, k)
       IN  /\ invoked' = [invoked EXCEPT ![m] = Append(@, [idx |-> k, h |-> h])]
           /\ IF iscoroutinefunction(h)
              THEN /\ dispatch' = [dispatch EXCEPT ![m].st = "awaiting"]
                   /\ UNCHANGED finished
              ELSE \E o \in Outcomes :
                      /\ finished' = [finished EXCEPT ![m] = Append(@, o)]
                      /\ dispatch' = AfterCall(m, o)
    /\ UNCHANGED <<channel_id, message_handlers, bot_started, notBot>>

\* The awaited handler completes or fails.
handler_done(m) ==
    /\ dispatch[m].st = "awaiting"
    /\ \E o \in Outcomes :
          /\ finished' = [finished EXCEPT ![m] = Append(@, o)]
          /\ dispatch' = AfterCall(m, o)
    /\ UNCHANGED <<channel_id, message_handlers, bot_started, invoked, notBot>>

\* The loop is exhausted: await self.bot.process_commands(message), the
\* last statement, after which on_message returns to its caller.
process_commands(m) ==
    /\ dispatch[m].st = "loop"
    /\ dispatch[m].k > Len(message_handlers)
    /\ dispatch' = [dispatch EXCEPT ![m].st = "done"]
    /\ UNCHANGED <<channel_id, message_handlers, bot_started, invoked, finished, notBot>>

BotNext ==
    \/ \E h \in Handlers : add_message_handler(h)
    \/ bot_start
    \/ \E m \in MsgIds, a \in Authors, c \in Channels : on_message(m, a, c)
    \/ \E m \in MsgIds : call_handler(m)
    \/ \E m \in MsgIds : handler_done(m)
    \/ \E m \in MsgIds : process_commands(m)

(***************************************************************************)
(* Text: a string is a sequence of characters; str.strip() is computed.    *)
(***************************************************************************)
Whitespace == {" ", "\n"}

RECURSIVE lstrip(_)
lstrip(t) == IF t # <<>> /\ Head(t) \in Whitespace THEN lstrip(Tail(t)) ELSE t

RECURSIVE rstrip(_)
rstrip(t) ==
    IF t # <<>> /\ t[Len(t)] \in Whitespace THEN rstrip(SubSeq(t, 1, Len(t) - 1)) ELSE t

strip(t) == rstrip(lstrip(t))

\* str.startswith(prefix)
startswith(t, prefix) ==
    Len(prefix) <= Len(t) /\ SubSeq(t, 1, Len(prefix)) = prefix

\* the maximal run of non-whitespace characters at the head of t
RECURSIVE FirstWord(_)
FirstWord(t) ==
    IF t = <<>> \/ Head(t) \in Whitespace THEN <<>>
    ELSE <<Head(t)>> \o FirstWord(Tail(t))

\* str.split(): the words of t, separated by runs of whitespace
RECURSIVE split(_)
split(t) ==
    LET u == lstrip(t)
    IN  IF u = <<>> THEN <<>>
        ELSE <<FirstWord(u)>> \o split(SubSeq(u, Len(FirstWord(u)) + 1, Len(u)))

(***************************************************************************)
(* FileHandler: the input mailbox file                                     *)
(***************************************************************************)
\* the detection tasks that run _process_input_file
Detectors == {"poll", "watch"}

\* asyncio.create_task(coro) calls events.get_running_loop(): in the thread
\* that runs the event loop the task is scheduled; in any other thread there
\* is no running loop and RuntimeError is raised.
create_task(thread) == IF thread = "loop" THEN "scheduled" ELSE "RuntimeError"

\* FileEventHandler.on_modified is called by the watchdog Observer, in the
\* observer's own thread.
ObserverThread == "observer"

\* what another program writes into the mailbox file
Contents == {<<"h">>, <<" ", "h", " ">>, <<" ">>}

NoneProcessed == [ended |-> FALSE, ok |-> FALSE, raced |-> FALSE, empty_after |-> FALSE]

FileInit ==
    /\ file_running = FALSE
    /\ input_file = <<>>
    /\ detect = [d \in Detectors |-> [pc |-> "none", content |-> <<>>, raced |-> FALSE]]
    /\ writes = 0
    /\ last_processed = [d \in Detectors |-> NoneProcessed]
    /\ observer = [st |-> "none", pending |-> FALSE]

\* FileHandler.start: running = True, _setup_file_watcher() starts the
\* Observer, create_task(_periodic_check())
FileStartEffect ==
    /\ file_running' = TRUE
    /\ detect' = [detect EXCEPT !["poll"].pc = "top"]
    /\ observer' = [st |-> "running", pending |-> FALSE]

file_start ==
    /\ \A d \in Detectors : detect[d].pc = "none"
    /\ ~file_running
    /\ FileStartEffect
    /\ UNCHANGED <<input_file, writes, last_processed, sent, notFile>>

\* FileHandler.stop: running = False; if self.observer: observer.stop(),
\* observer.join()
FileStopEffect ==
    /\ file_running' = FALSE
    /\ observer' = IF observer.st = "none" THEN observer
                   ELSE [st |-> "stopped", pending |-> FALSE]

\* a stop() call on the running adapter
file_stop ==
    /\ file_running
    /\ FileStopEffect
    /\ UNCHANGED <<input_file, detect, writes, last_processed, sent, notFile>>

\* another program writes the mailbox file
write_input(c) ==
    /\ writes < MaxWrites
    /\ input_file' = c
    /\ writes' = writes + 1
    /\ detect' = [d \in Detectors |->
                    IF detect[d].pc \in {"send", "truncate"}
                    THEN [detect[d] EXCEPT !.raced = TRUE] ELSE detect[d]]
    /\ observer' = IF observer.st = "running"
                   THEN [observer EXCEPT !.pending = TRUE] ELSE observer
    /\ UNCHANGED <<file_running, last_processed, sent, notFile>>

\* The Observer delivers the modification event of a write to on_modified:
\* the path is the input file and its mtime is newer than last_modified, so
\* create_task(self.handler._process_input_file()) is called, in the
\* observer thread.  When the task is scheduled it is a second detection of
\* the write next to the poll; when create_task raises, the exception leaves
\* on_modified and ends the observer thread's run loop.
on_modified ==
    /\ observer.st = "running"
    /\ observer.pending
    /\ detect["watch"].pc = "none"
    /\ IF create_task(ObserverThread) = "scheduled"
       THEN /\ detect' = [detect EXCEPT !["watch"].pc = "sleep"]
            /\ observer' = [observer EXCEPT !.pending = FALSE]
       ELSE /\ detect' = detect
            /\ observer' = [st |-> "failed", pending |-> FALSE]
    /\ UNCHANGED <<file_running, input_file, writes, last_processed, sent, notFile>>

\* _periodic_check: while self.running: await asyncio.sleep(...)
periodic_check_top ==
    /\ detect["poll"].pc = "top"
    /\ detect' = [detect EXCEPT !["poll"].pc =
                     IF file_running THEN "sleep" ELSE "exited"]
    /\ UNCHANGED <<file_running, input_file, writes, last_processed, observer, sent, notFile>>

\* where a detection task goes when _process_input_file returns
AfterProcess(d) == IF d = "poll" THEN "top" ELSE "none"

\* The file object f after the "async with aiofiles.open(path, 'r')" block
\* has been left: opened for reading, and closed by __aexit__.
ClosedReadHandle == [closed |-> TRUE, mode |-> "r"]

\* f.truncate(0): raises ValueError on a closed file and
\* io.UnsupportedOperation on a file not opened for writing; otherwise the
\* file becomes empty.
truncate_raises(f) == f.closed \/ f.mode = "r"

\* The sleep ends (or the watch fired) and _process_input_file runs up to its
\* await of send_message: open, read, close, the emptiness test.
process_input_read(d) ==
    /\ detect[d].pc = "sleep"
    /\ IF strip(input_file) = <<>>
       THEN detect' = [detect EXCEPT ![d].pc = AfterProcess(d)]
       ELSE detect' = [detect EXCEPT ![d] =
                         [pc |-> "send", content |-> input_file, raced |-> FALSE]]
    /\ UNCHANGED <<file_running, input_file, writes, last_processed, observer, sent, notFile>>

\* else: logging.error("Failed to send file content to Discord")
AfterFailedSend_Cleared(file) == <<>>
AfterFailedSend(file) == file

\* success = await self.bot.send_message(content.strip())
process_input_send(d, success) ==
    /\ detect[d].pc = "send"
    /\ Len(sent) < MaxSends
    /\ input_file' = IF success THEN input_file ELSE AfterFailedSend(input_file)
    /\ IF success
       THEN /\ sent' = Append(sent, strip(detect[d].content))
            /\ detect' = [detect EXCEPT ![d].pc = "truncate"]
            /\ UNCHANGED last_processed
       ELSE /\ sent' = sent
            /\ detect' = [detect EXCEPT ![d] =
                            [pc |-> AfterProcess(d), content |-> <<>>, raced |-> FALSE]]
            /\ last_processed' = [last_processed EXCEPT ![d] =
                   [ended |-> TRUE, ok |-> FALSE, raced |-> detect[d].raced,
                    empty_after |-> input_file = <<>>]]
    /\ UNCHANGED <<file_running, writes, observer, notFile>>

\* await f.truncate(0), inside try ... except Exception: logging.error(...)
process_input_truncate(d) ==
    /\ detect[d].pc = "truncate"
    /\ input_file' = IF truncate_raises(ClosedReadHandle) THEN input_file ELSE <<>>
    /\ detect' = [detect EXCEPT ![d] =
                    [pc |-> AfterProcess(d), content |-> <<>>, raced |-> FALSE]]
    /\ last_processed' = [last_processed EXCEPT ![d] =
           [ended |-> TRUE, ok |-> TRUE, raced |-> detect[d].raced,
            empty_after |-> input_file' = <<>>]]
    /\ UNCHANGED <<file_running, writes, observer, sent, notFile>>

FileNext ==
    \/ file_start
    \/ file_stop
    \/ \E c \in Contents : write_input(c)
    \/ on_modified
    \/ periodic_check_top
    \/ \E d \in Detectors : process_input_read(d)
    \/ \E d \in Detectors, ok \in BOOLEAN : process_input_send(d, ok)
    \/ \E d \in Detectors : process_input_truncate(d)

(***************************************************************************)
(* ServiceHandler: script cache, command resolution, child processes       *)
(***************************************************************************)
\* file names that may appear in the script directory
ScriptNames == {"greet", "ls"}

\* a directory entry: no such file, a regular file with an execute bit, a
\* regular file without one
EntryKinds == {"absent", "exec", "plain"}

\* the command names received; "nope" matches nothing
Commands == {"greet", "ls", "reload", "nope"}

\* if command in ['ls', 'ps', 'df', 'free', 'uptime', 'whoami', 'pwd']
SystemCommands == {"ls", "ps", "df", "free", "uptime", "whoami", "pwd"}

Builtins == {"help", "list", "status", "reload"}

AllowLists == {{}, {"greet"}}

ReqIds == 1..MaxCmds

\* the argument tokens that follow the command name
ArgLists == {<<"a", "b">>}

\* what a child writes to its standard output before it exits
Stdouts == {<<>>, <<" ", "h", " ">>}

\* no create_subprocess_exec call has been made
NoLaunch == [argv |-> <<>>, env |-> <<>>, cwd |-> "none"]

NoReq == [pc |-> "none", command |-> "none", branch |-> "none", result |-> "none",
          child |-> "none", lookup |-> "none", response |-> "none",
          args |-> <<>>, launches |-> 0,
          stdout |-> <<>>, sending |-> <<>>, sends |-> 0]

\* script_file.is_file() and script_file.stat().st_mode & 0o111
IsExecutableFile(kind) == kind = "exec"

\* the names the for loop of _load_scripts puts into the cache
ScanDirectory(entries) == {n \in ScriptNames : IsExecutableFile(entries[n])}

\* _load_scripts: a missing directory is created and nothing is loaded;
\* otherwise every executable regular file is stored under its name.  The
\* dict is written in place; nothing is removed from it.
load_scripts(cache, exists, entries) ==
    IF ~exists THEN cache ELSE cache \cup ScanDirectory(entries)

\* _execute_command: the order of the checks
Resolve_SystemFirst(command, allowed, cache) ==
    IF allowed # {} /\ command \notin allowed THEN "rejected"
    ELSE IF command \in SystemCommands THEN "system"
    ELSE IF command \in cache THEN "script"
    ELSE IF command \in Builtins THEN "builtin"
    ELSE "unknown"
Resolve_CacheFirst(command, allowed, cache) ==
    IF command \in cache THEN "script"
    ELSE IF allowed # {} /\ command \notin allowed THEN "rejected"
    ELSE IF command \in SystemCommands THEN "system"
    ELSE IF command \in Builtins THEN "builtin"
    ELSE "unknown"
Resolve(command, allowed, cache) ==
    IF allowed # {} /\ command \notin allowed THEN "rejected"
    ELSE IF command \in cache THEN "script"
    ELSE IF command \in SystemCommands THEN "system"
    ELSE IF command \in Builtins THEN "builtin"
    ELSE "unknown"

\* ' '.join(args)
RECURSIVE Join(_)
Join(args) ==
    IF args = <<>> THEN <<>>
    ELSE IF Len(args) = 1 THEN <<args[1]>>
    ELSE <<args[1], " ">> \o Join(Tail(args))

\* script_path = self.script_cache[script_name]: str(script_file)
ScriptPath(name) == "script_directory/" \o name

\* env.update({...}) of _execute_script: the variables put over os.environ
ScriptEnv(args) ==
    [k \in {"DISCORD_MESSAGE_ID", "DISCORD_AUTHOR", "DISCORD_CHANNEL_ID",
             "DISCORD_GUILD_ID", "DISCORD_MESSAGE_CONTENT", "DISCORD_ARGS"} |->
        CASE k = "DISCORD_MESSAGE_ID" -> <<"message.id">>
          [] k = "DISCORD_AUTHOR" -> <<"message.author">>
          [] k = "DISCORD_CHANNEL_ID" -> <<"message.channel.id">>
          [] k = "DISCORD_GUILD_ID" -> <<"message.guild.id">>
          [] k = "DISCORD_MESSAGE_CONTENT" -> <<"message.content">>
          [] OTHER -> Join(args)]

\* the create_subprocess_exec call of _execute_script: the program and its
\* arguments, the variables put over the inherited environment, the cwd
ScriptLaunch(command, args) ==
    [argv |-> <<ScriptPath(command)>> \o args, env |-> ScriptEnv(args),
     cwd |-> "working_directory"]

\* the create_subprocess_exec call of _execute_system_command: neither env=
\* nor cwd= is passed, the child inherits both from the bot process
SystemLaunch(command, args) ==
    [argv |-> <<command>> \o args, env |-> <<>>, cwd |-> "inherited"]

LaunchOf(branch, command, args) ==
    IF branch = "script" THEN ScriptLaunch(command, args)
    ELSE SystemLaunch(command, args)

\* the create_subprocess_exec call of a request that is in that call (pc
\* spawn) or waits for the child it started (pc wait)
Launch(r) == LaunchOf(r.branch, r.command, r.args)

\* stdout.decode('utf-8', errors='replace').strip()
stdout_text(out) == strip(out)

\* the return statements after process.communicate()
ExitResult(rc, out) ==
    IF rc # 0 THEN "failed"
    ELSE IF stdout_text(out) # <<>> THEN "output"
    ELSE "success_text"

\* the text a result stands for: the trimmed output itself, or one of the
\* fixed messages (with the command name, exit status or exception in it)
ResultText(result, out) ==
    IF result = "output" THEN stdout_text(out) ELSE <<result>>

\* except Exception as e: return f"Error executing ...: {str(e)}"
OnException_Propagate(r) == [r EXCEPT !.pc = "raised"]
OnException(r) ==
    [r EXCEPT !.pc = "reply", !.result = "launch_error",
              !.args = <<>>,
              !.sending = ResultText("launch_error", <<>>), !.sends = 1]

\* what the timeout branch does to the child: _execute_script calls
\* process.kill(); _execute_system_command only returns the message.
ChildAfterTimeout(branch) == IF branch = "script" THEN "killed" ELSE "running"

SvcInit ==
    /\ allowed_commands \in AllowLists
    /\ dir_exists \in BOOLEAN
    /\ script_dir \in [ScriptNames -> {"absent", "exec"}]
    /\ dir_exists = FALSE => script_dir = [n \in ScriptNames |-> "absent"]
    /\ dir_changes = 0
    /\ service_running = FALSE
    /\ script_cache = {}
    /\ req = [r \in ReqIds |-> NoReq]
    /\ last_load = [found |-> {}, cache |-> {}, blend |-> FALSE]

\* the state _load_scripts leaves behind; blend records that the mapping it
\* left is neither the mapping it found nor the script set of its own scan
LoadScriptsEffect ==
    /\ script_cache' = load_scripts(script_cache, dir_exists, script_dir)
    /\ dir_exists' = TRUE
    /\ last_load' = [found |-> ScanDirectory(script_dir), cache |-> script_cache',
                     blend |-> script_cache' \notin {script_cache, ScanDirectory(script_dir)}]

\* ServiceHandler.start (service.enabled): running = True, _load_scripts(),
\* bot.add_message_handler(self._handle_service_message)
ServiceStartEffect ==
    /\ service_running' = TRUE
    /\ LoadScriptsEffect
    /\ message_handlers' = Append(message_handlers, "_handle_service_message")

service_start ==
    /\ ~service_running
    /\ Len(message_handlers) < MaxStarts
    /\ ServiceStartEffect
    /\ UNCHANGED <<allowed_commands, script_dir, dir_changes, req, sent, notSvc>>

\* ServiceHandler.stop
service_stop ==
    /\ service_running
    /\ service_running' = FALSE
    /\ UNCHANGED <<allowed_commands, script_dir, dir_exists, dir_changes, script_cache,
                   req, last_load, message_handlers, sent, notSvc>>

\* what other programs do to a file of the script directory: install an
\* executable script, delete a script, take a script's execute bits away
DirChanges == {<<"absent", "exec">>, <<"exec", "absent">>, <<"exec", "plain">>}

\* another program changes one file of the script directory
dir_change(n, kind) ==
    /\ dir_exists
    /\ dir_changes < MaxDirChanges
    /\ <<script_dir[n], kind>> \in DirChanges
    /\ script_dir' = [script_dir EXCEPT ![n] = kind]
    /\ dir_changes' = dir_changes + 1
    /\ UNCHANGED <<allowed_commands, dir_exists, service_running, script_cache, req,
                   last_load, message_handlers, sent, notSvc>>

\* What the mapping consulted by "command in self.script_cache" is at this
\* moment: the mapping as it was before the last load (old), the script set
\* the last load found (new), or a blend of the two.
LookupSource == IF last_load.blend THEN "blend" ELSE "one_scan"

\* the reply text of a command that needs no child process
ImmediateResult(command, branch) ==
    CASE branch = "rejected" -> "not_allowed"
      [] branch = "unknown" -> "unknown_command"
      [] branch = "builtin" /\ command = "reload" -> "reloaded"
      [] OTHER -> command

\* ReqIds are the execution requests that can be in flight at the same time;
\* the record of a finished request, whose child is gone, is taken over by
\* the next one.
\* _handle_service_message for a prefixed message whose first token is
\* command, up to the first suspension: _execute_command resolves the name;
\* a script or system command goes on to create_subprocess_exec, a built-in
\* runs at once (reload runs _load_scripts), anything else gets its text.
handle_service_message(r, command, args) ==
    /\ "_handle_service_message" \in Range(message_handlers)
    /\ req[r].pc \in {"none", "done"}
    /\ req[r].child # "running"
    /\ \A r2 \in ReqIds : r2 < r => req[r2].pc # "none"
    /\ LET branch == Resolve(command, allowed_commands, script_cache)
           lookup == IF branch = "rejected" THEN "none" ELSE LookupSource
       IN  /\ IF branch \in {"script", "system"}
              THEN req' = [req EXCEPT ![r] =
                             [NoReq EXCEPT !.pc = "spawn", !.command = command,
                                           !.branch = branch, !.lookup = lookup,
                                           !.args = args]]
              ELSE req' = [req EXCEPT ![r] =
                             [NoReq EXCEPT !.pc = "reply", !.command = command,
                                           !.branch = branch, !.lookup = lookup,
                                           !.result = ImmediateResult(command, branch),
                                           !.sending = ResultText(
                                               ImmediateResult(command, branch), <<>>),
                                           !.sends = 1]]
           /\ IF branch = "builtin" /\ command = "reload"
              THEN LoadScriptsEffect
              ELSE UNCHANGED <<script_cache, dir_exists, last_load>>
    /\ UNCHANGED <<allowed_commands, script_dir, dir_changes, service_running,
                   message_handlers, sent, notSvc>>

\* await asyncio.create_subprocess_exec(...): the child starts, or the call
\* raises (no such file, permission denied) and the except clause turns the
\* exception into a text.
create_subprocess_exec(r, found) ==
    /\ req[r].pc = "spawn"
    /\ LET canrun == IF req[r].branch = "script"
                     THEN dir_exists /\ script_dir[req[r].command] = "exec"
                     ELSE found
       IN  req' = [req EXCEPT ![r] =
                     IF canrun
                     THEN [@ EXCEPT !.pc = "wait", !.child = "running",
                                    !.launches = @ + 1]
                     ELSE OnException(@)]
    /\ UNCHANGED <<allowed_commands, script_dir, dir_exists, dir_changes,
                   service_running, script_cache, last_load,
                   message_handlers, sent, notSvc>>

\* The child process ends by itself with exit status rc, having written out
\* to its standard output (kept for status zero, where it is the result).
\* Once the executor has its result, its arguments are past.  If the request
\* still waits in process.communicate(), that call returns within the timeout
\* and the result is built from the exit status.
child_exit(r, rc, out) ==
    /\ req[r].child = "running"
    \* nobody reads the status or the output of a child no request waits for,
    \* and the output is the result only for status zero
    /\ req[r].pc # "wait" => rc = 0
    /\ (req[r].pc # "wait" \/ rc # 0) => out = <<>>
    /\ req' = [req EXCEPT ![r] =
                 IF req[r].pc = "wait"
                 THEN [@ EXCEPT !.child = "exited", !.pc = "reply",
                                !.result = ExitResult(rc, out),
                                !.args = <<>>,
                                !.stdout = IF rc = 0 THEN out ELSE <<>>,
                                !.sending = ResultText(ExitResult(rc, out), out),
                                !.sends = 1]
                 ELSE [@ EXCEPT !.child = "exited"]]
    /\ UNCHANGED <<allowed_commands, script_dir, dir_exists, dir_changes,
                   service_running, script_cache, last_load,
                   message_handlers, sent, notSvc>>

\* asyncio.wait_for raises TimeoutError while the child still runs
wait_timeout(r) ==
    /\ req[r].pc = "wait"
    /\ req[r].child = "running"
    /\ req' = [req EXCEPT ![r].pc = "reply", ![r].result = "timed_out",
                          ![r].child = ChildAfterTimeout(req[r].branch),
                          ![r].args = <<>>,
                          ![r].sending = ResultText("timed_out", <<>>),
                          ![r].sends = 1]
    /\ UNCHANGED <<allowed_commands, script_dir, dir_exists, dir_changes,
                   service_running, script_cache, last_load,
                   message_handlers, sent, notSvc>>

\* if response: await self.bot.send_message(response); every result text is
\* non-empty.  The handler returns and its locals are gone: what is left of
\* the request is whether the channel received its text, and its child.
send_response(r, success) ==
    /\ req[r].pc = "reply"
    /\ req' = [req EXCEPT ![r] =
                 [NoReq EXCEPT !.pc = "done", !.child = req[r].child,
                               !.response = IF success THEN "sent" ELSE "send_failed"]]
    /\ UNCHANGED <<allowed_commands, script_dir, dir_exists, dir_changes,
                   service_running, script_cache, last_load,
                   message_handlers, sent, notSvc>>

SvcNext ==
    \/ service_start
    \/ service_stop
    \/ \E n \in ScriptNames, k \in EntryKinds : dir_change(n, k)
    \/ \E r \in ReqIds, c \in Commands, a \in ArgLists : handle_service_message(r, c, a)
    \/ \E r \in ReqIds, f \in BOOLEAN : create_subprocess_exec(r, f)
    \/ \E r \in ReqIds, rc \in {0, 1}, out \in Stdouts : child_exit(r, rc, out)
    \/ \E r \in ReqIds : wait_timeout(r)
    \/ \E r \in ReqIds, ok \in BOOLEAN : send_response(r, ok)

(***************************************************************************)
(* ServiceHandler._handle_service_message: from the text to the command    *)
(***************************************************************************)
Chars == {"!", " ", "l", "s"}

\* the message texts, and the values of config.bot.prefix (--prefix)
Texts == UNION {[1..n -> Chars] : n \in 0..MaxText}
Prefixes == {<<"!">>, <<"!", "!">>}

\* command_line = content[1:].strip()
RemovePrefix(content, prefix) == strip(SubSeq(content, 2, Len(content)))

NothingDelegated == [delegated |-> FALSE, command |-> <<>>, args |-> <<>>]
Delegated(parts) == [delegated |-> TRUE, command |-> Head(parts), args |-> Tail(parts)]

\* what _handle_service_message passes to _execute_command for a text
ParseCommand_NoPrefixTest(text, prefix) ==
    LET parts == split(RemovePrefix(strip(text), prefix))
    IN  IF parts = <<>> THEN NothingDelegated ELSE Delegated(parts)

ParseCommand(text, prefix) ==
    LET content == strip(text)
    IN  IF ~startswith(content, prefix) THEN NothingDelegated
        ELSE LET parts == split(RemovePrefix(content, prefix))
             IN  IF parts = <<>> THEN NothingDelegated ELSE Delegated(parts)

\* a Python str from its characters
RECURSIVE ToStr(_)
ToStr(w) == IF w = <<>> THEN "" ELSE Head(w) \o ToStr(Tail(w))

Tokens(ws) == [i \in 1..Len(ws) |-> ToStr(ws[i])]

\* the script mappings and allow-lists a message is routed under
RouteCaches == {{}, {"ls"}}
RouteAllowLists == {{}, {"s"}}

\* the command names given to _execute_command directly
ResolveNames == {"greet", "ls", "help", "reload", "nope"}
ResolveCaches == SUBSET {"greet", "ls", "help", "reload"}
ResolveAllowLists == {{}, {"ls", "help"}}

RouteIdle == route = [pc |-> "none"]

RouteInit ==
    \/ \E text \in Texts, prefix \in Prefixes,
          allowed \in RouteAllowLists, cache \in RouteCaches :
            route = [pc |-> "in", prefix |-> prefix, text |-> text,
                     allowed |-> allowed, cache |-> cache]
    \/ \E command \in ResolveNames, allowed \in ResolveAllowLists,
          cache \in ResolveCaches :
            route = [pc |-> "execute", command |-> command,
                     allowed |-> allowed, cache |-> cache]
    \/ \E name \in ResolveNames, cache \in ResolveCaches :
            route = [pc |-> "direct", script_name |-> name, cache |-> cache]

\* the dispatcher calls _handle_service_message with one message: the text
\* is parsed, _execute_command resolves the command, and for a script or a
\* system command the create_subprocess_exec call is made
route_message ==
    /\ route.pc = "in"
    /\ LET out == ParseCommand(route.text, route.prefix)
           command == ToStr(out.command)
           args == Tokens(out.args)
           branch == IF out.delegated
                     THEN Resolve(command, route.allowed, route.cache)
                     ELSE "none"
       IN  route' = [route EXCEPT !.pc = "done"] @@
                    [out |-> out, branch |-> branch,
                     launch |-> IF branch \in {"script", "system"}
                                THEN LaunchOf(branch, command, args)
                                ELSE NoLaunch]
    /\ UNCHANGED notRoute

\* _execute_command(command, ...) up to the branch it takes
execute_command ==
    /\ route.pc = "execute"
    /\ route' = [route EXCEPT !.pc = "resolved"] @@
                 [branch |-> Resolve(route.command, route.allowed, route.cache),
                  result |-> LET b == Resolve(route.command, route.allowed, route.cache)
                             IN  IF b \in {"script", "system"} THEN "none"
                                 ELSE ImmediateResult(route.command, b)]
    /\ UNCHANGED notRoute

\* env.update({'DISCORD_MESSAGE_ID': str(message.id), ...}) evaluates
\* message.id first: AttributeError when message is None
EnvRaises(message) == message = "None"

\* _execute_script(script_name, args, message) up to its first await: the
\* exception of the env construction is caught by except Exception, which
\* returns the error text; else create_subprocess_exec is called
ExecuteScript(message) ==
    IF EnvRaises(message)
    THEN [result |-> "Error executing script: 'NoneType' object has no attribute 'id'",
          launches |-> 0]
    ELSE [result |-> "execution result", launches |-> 1]

\* execute_script_direct(script_name, args): the not-found text for a name
\* outside the mapping, else _execute_script(script_name, args or [], None)
execute_script_direct ==
    /\ route.pc = "direct"
    /\ route' = [route EXCEPT !.pc = "returned"] @@
                 (IF route.script_name \notin route.cache
                  THEN [result |-> "Script '" \o route.script_name \o "' not found",
                        launches |-> 0]
                  ELSE ExecuteScript("None"))
    /\ UNCHANGED notRoute

RouteNext ==
    \/ route_message
    \/ execute_command
    \/ execute_script_direct

(***************************************************************************)
(* Bytes: int.to_bytes / int.from_bytes, UTF-8, the frame encoder          *)
(***************************************************************************)
Min(a, b) == IF a <= b THEN a ELSE b

\* the first n elements of s (all of s if it is shorter), and the rest
Take(s, n) == SubSeq(s, 1, Min(n, Len(s)))
Drop(s, n) == SubSeq(s, Min(n, Len(s)) + 1, Len(s))

\* len(data).to_bytes(4, 'big')
to_bytes4(n) ==
    << (n \div 16777216) % 256, (n \div 65536) % 256, (n \div 256) % 256, n % 256 >>

\* int.from_bytes(data, 'big'), for data of any length
RECURSIVE from_bytes(_)
from_bytes(bs) ==
    IF bs = <<>> THEN 0
    ELSE 256 * from_bytes(SubSeq(bs, 1, Len(bs) - 1)) + bs[Len(bs)]

\* send_socket_message: writer.write(message_length + message_data)
encode_frame(payload) == to_bytes4(Len(payload)) \o payload

IsCont(b) == b >= 128 /\ b <= 191

\* the number of bytes of the well-formed UTF-8 sequence at the head of bs,
\* 0 if there is none (bytes.decode('utf-8') then raises UnicodeDecodeError)
Utf8SeqLen(bs) ==
    LET b1 == bs[1]
        n == Len(bs)
    IN  IF b1 <= 127 THEN 1
        ELSE IF b1 >= 194 /\ b1 <= 223
             THEN IF n >= 2 /\ IsCont(bs[2]) THEN 2 ELSE 0
        ELSE IF b1 >= 224 /\ b1 <= 239
             THEN IF /\ n >= 3 /\ IsCont(bs[2]) /\ IsCont(bs[3])
                     /\ (b1 = 224 => bs[2] >= 160)
                     /\ (b1 = 237 => bs[2] <= 159)
                  THEN 3 ELSE 0
        ELSE IF b1 >= 240 /\ b1 <= 244
             THEN IF /\ n >= 4 /\ IsCont(bs[2]) /\ IsCont(bs[3]) /\ IsCont(bs[4])
                     /\ (b1 = 240 => bs[2] >= 144)
                     /\ (b1 = 244 => bs[2] <= 143)
                  THEN 4 ELSE 0
        ELSE 0

RECURSIVE Utf8Valid(_)
Utf8Valid(bs) ==
    IF bs = <<>> THEN TRUE
    ELSE LET k == Utf8SeqLen(bs)
         IN  k > 0 /\ Utf8Valid(Drop(bs, k))

\* the code point of the sequence of k bytes at the head of bs
CodePoint(bs, k) ==
    CASE k = 1 -> bs[1]
      [] k = 2 -> (bs[1] - 192) * 64 + (bs[2] - 128)
      [] k = 3 -> (bs[1] - 224) * 4096 + (bs[2] - 128) * 64 + (bs[3] - 128)
      [] k = 4 -> (bs[1] - 240) * 262144 + (bs[2] - 128) * 4096
                    + (bs[3] - 128) * 64 + (bs[4] - 128)

\* message_data.decode('utf-8') of valid bytes: the sequence of code points
RECURSIVE Utf8Decode(_)
Utf8Decode(bs) ==
    IF bs = <<>> THEN <<>>
    ELSE LET k == Utf8SeqLen(bs)
         IN  <<CodePoint(bs, k)>> \o Utf8Decode(Drop(bs, k))

(***************************************************************************)
(* SocketHandler: the request/response loop of one connection              *)
(***************************************************************************)
ConnIds == 1..MaxConns

\* payloads that clients put into frames
EmptyPayload == <<>>
BadUtf8Payload == <<255>>                     \* b'\xff'
BadJsonPayload == <<120>>                     \* b'x'
NumberPayload == <<49>>                       \* b'1'
EmptyObjectPayload == <<123, 125>>            \* b'{}'
StatusPayload ==                              \* b'{"command":"status"}'
    <<123, 34, 99, 111, 109, 109, 97, 110, 100, 34, 58,
      34, 115, 116, 97, 116, 117, 115, 34, 125>>

UnknownPayload ==                             \* b'{"command":"x"}'
    <<123, 34, 99, 111, 109, 109, 97, 110, 100, 34, 58, 34, 120, 34, 125>>

SendPayload ==                                \* b'{"command":"send","content":"h"}'
    <<123, 34, 99, 111, 109, 109, 97, 110, 100, 34, 58, 34, 115, 101, 110, 100, 34,
      44, 34, 99, 111, 110, 116, 101, 110, 116, 34, 58, 34, 104, 34, 125>>

\* the payloads the clients of this model send
Payloads == {EmptyPayload, BadUtf8Payload, BadJsonPayload, NumberPayload,
             EmptyObjectPayload}

\* json.loads(message) for the texts that can reach it here.  A frame with a
\* length above zero is only ever taken from the bytes that follow a whole
\* length prefix, so its text is one of the payloads above; every other text
\* that is interpreted is empty, and json.loads('') raises JSONDecodeError.
JsonLoads(text) ==
    CASE text = Utf8Decode(StatusPayload) -> [type |-> "dict", command |-> "status"]
      [] text = Utf8Decode(SendPayload) -> [type |-> "dict", command |-> "send"]
      [] text = Utf8Decode(UnknownPayload) -> [type |-> "dict", command |-> "x"]
      [] text = Utf8Decode(EmptyObjectPayload) -> [type |-> "dict", command |-> "None"]
      [] text = Utf8Decode(NumberPayload) -> [type |-> "int", command |-> "-"]
      [] OTHER -> [type |-> "JSONDecodeError", command |-> "-"]

\* if command == 'send': the handler suspends in await bot.send_message
IsSend(text) ==
    LET data == JsonLoads(text) IN data.type = "dict" /\ data.command = "send"

\* json.dumps({'success': success, 'message': content})
send_reply(success) ==
    [kind |-> "send", text |-> IF success THEN "success: true" ELSE "success: false"]

\* else: return json.dumps({'error': f'Unknown command: {command}'})
UnknownReply_Generic(command) == [kind |-> "error", text |-> "Unknown command"]
UnknownReply(command) == [kind |-> "error", text |-> "Unknown command: " \o command]

\* json.dumps of a bool
JsonBool(b) == IF b THEN "true" ELSE "false"

\* json.dumps({'connected': ..., 'running': ...})
StatusReply(connected, running) ==
    [kind |-> "status",
     text |-> "connected: " \o JsonBool(connected) \o ", running: " \o JsonBool(running)]

\* _process_socket_message: the reply for a decoded text that is not a send.
\* (get_messages is not among the payloads.)
process_socket_message(text) ==
    LET data == JsonLoads(text)
    IN  CASE data.type = "JSONDecodeError" ->
                [kind |-> "error", text |-> "Invalid JSON message"]
          [] data.type # "dict" ->          \* data.get raises AttributeError
                [kind |-> "error", text |-> "object has no attribute 'get'"]
          [] data.command = "status" ->
                StatusReply(is_connected, bot_state.is_running)
          [] OTHER ->
                UnknownReply(data.command)

NoConn == [pc |-> "none", buffer |-> <<>>, eof |-> FALSE, message_length |-> 0,
           why |-> "-", overlap |-> FALSE]
NoClient == [closed |-> FALSE, frames |-> 0, truncated |-> FALSE]

SockInit ==
    /\ sock_running = FALSE
    /\ sock_starts = 0
    /\ socket_file \in {"absent", "stale"}
    /\ conn = [c \in ConnIds |-> NoConn]
    /\ wire = [c \in ConnIds |-> <<>>]
    /\ client = [c \in ConnIds |-> NoClient]
    /\ frames_sent = [c \in ConnIds |-> <<>>]
    /\ decoded = [c \in ConnIds |-> <<>>]
    /\ replies = [c \in ConnIds |-> <<>>]

\* if socket_path.exists(): socket_path.unlink()   (in start)
StartUnlink_Skipped(file) == file
StartUnlink(file) == "absent"

\* start_unix_server binds the path: the socket file is created where no
\* file is; a path in use stays as it is
BindPath(file) == IF file = "absent" THEN "socket" ELSE file

\* SocketHandler.start (socket.enabled): running = True, unlink a stale file,
\* start_unix_server creates the socket file
SocketStartEffect ==
    /\ sock_starts' = sock_starts + 1
    /\ sock_running' = TRUE
    /\ socket_file' = BindPath(StartUnlink(socket_file))

socket_start ==
    /\ ~sock_running
    /\ sock_starts < MaxStarts
    /\ SocketStartEffect
    /\ UNCHANGED <<conn, wire, client, frames_sent, decoded, replies, notSock>>

\* SocketHandler.stop: running = False, server.close(), unlink the file
\* if socket_path.exists(): socket_path.unlink()
StopUnlink_Unchecked(file) == [file |-> "absent", raises |-> file = "absent"]
StopUnlink(file) == [file |-> "absent", raises |-> FALSE]

socket_stop ==
    /\ sock_running
    /\ sock_running' = FALSE
    /\ socket_file' = StopUnlink(socket_file).file
    /\ UNCHANGED <<sock_starts, conn, wire, client, frames_sent, decoded, replies, notSock>>

\* while self.running: the loop goes on to the next read or ends
LoopTop == IF sock_running THEN "read_len" ELSE "closed"

\* asyncio.start_unix_server(self._handle_client, path): every accepted
\* connection gets a task of its own that runs _handle_client.
HandlerTask_Shared(c) == 1
HandlerTask(c) == c

\* A task runs one handler at a time: the handler of connection c can take a
\* step unless its task is still inside the handler of an earlier connection.
TaskFree(c) ==
    \A c2 \in ConnIds :
        (c2 < c /\ HandlerTask(c2) = HandlerTask(c)) => conn[c2].pc \in {"none", "closed"}

\* another connection's handler is suspended in an await: for its client's
\* next bytes, for the chat service, or for its client to drain a reply
OthersSuspended(c) ==
    \E c2 \in ConnIds \ {c} :
        \/ conn[c2].pc \in {"read_body", "send", "drain"}
        \/ conn[c2].pc = "read_len" /\ conn[c2].buffer = <<>> /\ ~conn[c2].eof

\* response written; await writer.drain() suspends while the transport is
\* paused (the client does not read), else the loop goes on
AfterReply(cn, c, paused) ==
    [cn EXCEPT !.pc = IF paused THEN "drain" ELSE LoopTop,
               !.overlap = @ \/ OthersSuspended(c)]

\* a client connects; _handle_client starts and reaches reader.read(4)
client_connect(c) ==
    /\ sock_running
    /\ conn[c].pc = "none"
    /\ \A c2 \in ConnIds : c2 < c => conn[c2].pc # "none"
    /\ conn' = [conn EXCEPT ![c].pc = "read_len"]
    /\ UNCHANGED <<sock_running, sock_starts, socket_file, wire, client, frames_sent, decoded,
                   replies, notSock>>

\* the number of frames the clients of the connections in S have written
RECURSIVE FramesWritten(_)
FramesWritten(S) ==
    IF S = {} THEN 0
    ELSE LET c == CHOOSE x \in S : TRUE
         IN  client[c].frames + FramesWritten(S \ {c})

\* the client writes one whole frame (the frame encoder)
client_send_frame(c, payload) ==
    /\ conn[c].pc # "none"
    /\ ~client[c].closed
    /\ FramesWritten(ConnIds) < MaxFrames
    /\ wire' = [wire EXCEPT ![c] = @ \o encode_frame(payload)]
    /\ client' = [client EXCEPT ![c].frames = @ + 1]
    /\ frames_sent' = [frames_sent EXCEPT ![c] = Append(@, payload)]
    /\ UNCHANGED <<sock_running, sock_starts, socket_file, conn, decoded, replies, notSock>>

\* the client writes only the first n bytes of a frame and closes
client_send_partial(c, payload, n) ==
    /\ conn[c].pc # "none"
    /\ ~client[c].closed
    /\ FramesWritten(ConnIds) < MaxFrames
    /\ n \in 1..(Len(encode_frame(payload)) - 1)
    /\ wire' = [wire EXCEPT ![c] = @ \o Take(encode_frame(payload), n)]
    /\ client' = [client EXCEPT ![c].closed = TRUE, ![c].truncated = TRUE]
    /\ UNCHANGED <<sock_running, sock_starts, socket_file, conn, frames_sent, decoded, replies,
                   notSock>>

\* the client closes after its last whole frame
client_close(c) ==
    /\ conn[c].pc # "none"
    /\ ~client[c].closed
    /\ client' = [client EXCEPT ![c].closed = TRUE]
    /\ UNCHANGED <<sock_running, sock_starts, socket_file, conn, wire, frames_sent, decoded,
                   replies, notSock>>

\* the transport hands the next n bytes to the StreamReader (data_received)
data_received(c, n) ==
    /\ n \in 1..Len(wire[c])
    /\ conn[c].pc \notin {"none", "closed"}
    /\ conn' = [conn EXCEPT ![c].buffer = @ \o Take(wire[c], n)]
    /\ wire' = [wire EXCEPT ![c] = Drop(@, n)]
    /\ UNCHANGED <<sock_running, sock_starts, socket_file, client, frames_sent, decoded, replies,
                   notSock>>

\* the transport reports the end of the stream (eof_received)
eof_received(c) ==
    /\ client[c].closed
    /\ wire[c] = <<>>
    /\ conn[c].pc \notin {"none", "closed"}
    /\ ~conn[c].eof
    /\ conn' = [conn EXCEPT ![c].eof = TRUE]
    /\ UNCHANGED <<sock_running, sock_starts, socket_file, wire, client, frames_sent, decoded,
                   replies, notSock>>

\* StreamReader.read(n) can return: n = 0, or bytes are buffered, or EOF
CanRead(cn, n) == n = 0 \/ cn.buffer # <<>> \/ cn.eof

\* The handler of connection c can take its next step: its task is free and
\* the await it is suspended in can return.
Ready(c) ==
    /\ TaskFree(c)
    /\ CASE conn[c].pc = "read_len" -> CanRead(conn[c], 4)
         [] conn[c].pc = "read_body" -> CanRead(conn[c], conn[c].message_length)
         [] conn[c].pc \in {"send", "drain"} -> TRUE
         [] OTHER -> FALSE

\* The connection after message_data was taken as a frame: decode, process
\* (a send suspends in the chat-service call), write the reply, drain, loop.
\* A UnicodeDecodeError is raised outside _process_socket_message and lands
\* in the except clause of _handle_client, which ends the connection.
FrameTaken(cn, c, data, paused) ==
    IF ~Utf8Valid(data) THEN [cn EXCEPT !.pc = "closed", !.why = "exception"]
    ELSE IF IsSend(Utf8Decode(data)) THEN [cn EXCEPT !.pc = "send"]
    ELSE AfterReply(cn, c, paused)

RepliesAfter(rs, data) ==
    IF Utf8Valid(data) /\ ~IsSend(Utf8Decode(data))
    THEN Append(rs, process_socket_message(Utf8Decode(data)))
    ELSE rs

\* message_data = await reader.read(message_length) returns, and the code
\* runs on to the next suspension.  cn is the connection with the length
\* prefix already consumed.
ReadBody(c, cn, paused) ==
    LET n == cn.message_length
        data == Take(cn.buffer, n)
        cn2 == [cn EXCEPT !.buffer = Drop(cn.buffer, n)]
    IN  IF Len(data) # n
        THEN /\ conn' = [conn EXCEPT ![c] = [cn2 EXCEPT !.pc = "closed",
                                                         !.why = "short_read"]]
             /\ UNCHANGED <<decoded, replies>>
        ELSE /\ conn' = [conn EXCEPT ![c] = FrameTaken(cn2, c, data, paused)]
             /\ decoded' = [decoded EXCEPT ![c] = Append(@, data)]
             /\ replies' = [replies EXCEPT ![c] = RepliesAfter(@, data)]

\* length_data = await reader.read(4) returns: an empty result ends the
\* loop, anything else is converted with int.from_bytes; the body read that
\* follows returns at once when it has something to return.
read_length(c, paused) ==
    /\ conn[c].pc = "read_len"
    /\ Ready(c)
    /\ LET length_data == Take(conn[c].buffer, 4)
           cn == [conn[c] EXCEPT !.buffer = Drop(conn[c].buffer, 4),
                                 !.message_length = from_bytes(length_data)]
       IN  IF length_data = <<>>
           THEN /\ conn' = [conn EXCEPT ![c].pc = "closed", ![c].why = "eof"]
                /\ UNCHANGED <<decoded, replies>>
           ELSE IF CanRead(cn, cn.message_length)
           THEN ReadBody(c, cn, paused)
           ELSE /\ conn' = [conn EXCEPT ![c] = [cn EXCEPT !.pc = "read_body"]]
                /\ UNCHANGED <<decoded, replies>>
    /\ UNCHANGED <<sock_running, sock_starts, socket_file, wire, client, frames_sent, notSock>>

\* the task was suspended in reader.read(message_length); bytes or EOF came
read_body(c, paused) ==
    /\ conn[c].pc = "read_body"
    /\ Ready(c)
    /\ ReadBody(c, conn[c], paused)
    /\ UNCHANGED <<sock_running, sock_starts, socket_file, wire, client, frames_sent, notSock>>

\* success = await self.bot.send_message(content) returns; the reply is
\* written and drained.
socket_send_done(c, success, paused) ==
    /\ conn[c].pc = "send"
    /\ Ready(c)
    /\ replies' = [replies EXCEPT ![c] = Append(@, send_reply(success))]
    /\ conn' = [conn EXCEPT ![c] = AfterReply(conn[c], c, paused)]
    /\ UNCHANGED <<sock_running, sock_starts, socket_file, wire, client, frames_sent, decoded,
                   notSock>>

\* the client has read enough of the replies: the transport resumes writing
\* and await writer.drain() returns
drain_done(c) ==
    /\ conn[c].pc = "drain"
    /\ Ready(c)
    /\ conn' = [conn EXCEPT ![c].pc = LoopTop]
    /\ UNCHANGED <<sock_running, sock_starts, socket_file, wire, client, frames_sent, decoded,
                   replies, notSock>>

\* The framing is examined byte by byte on one connection, whose client
\* reads its replies at once.
FramingConns == {1}

SockNext ==
    \/ socket_start
    \/ socket_stop
    \/ \E c \in FramingConns : client_connect(c)
    \/ \E c \in FramingConns, p \in Payloads : client_send_frame(c, p)
    \/ \E c \in FramingConns, p \in Payloads, n \in 1..5 : client_send_partial(c, p, n)
    \/ \E c \in FramingConns : client_close(c)
    \/ \E c \in FramingConns, n \in 1..(6 * (MaxFrames + 1)) : data_received(c, n)
    \/ \E c \in FramingConns : eof_received(c)
    \/ \E c \in FramingConns : read_length(c, FALSE)
    \/ \E c \in FramingConns : read_body(c, FALSE)

\* Several connections at once: the clients stay connected and write whole
\* frames, which the transport hands over in one piece; a send request waits
\* for the chat service, a slow client pauses the transport.
ConnPayloads == {SendPayload, EmptyObjectPayload, UnknownPayload}

ConnsNext ==
    \/ socket_start
    \/ \E c \in ConnIds : client_connect(c)
    \/ \E c \in ConnIds, p \in ConnPayloads : client_send_frame(c, p)
    \/ \E c \in ConnIds : data_received(c, Len(wire[c]))
    \/ \E c \in ConnIds : read_length(c, FALSE)
    \/ \E c \in ConnIds : read_length(c, TRUE)
    \/ \E c \in ConnIds, ok \in BOOLEAN, paused \in BOOLEAN : socket_send_done(c, ok, paused)
    \/ \E c \in ConnIds : drain_done(c)

(***************************************************************************)
(* DiscordBotCLI: start and shutdown of the adapters; the console loop     *)
(***************************************************************************)
Adapters == {"stdin", "file", "socket", "service"}

\* signal_handler creates one shutdown() task; the finally clause of start()
\* awaits another
ShutdownTasks == {"signal", "finally"}

\* what sys.stdin.readline returns: a line with its newline; <<>> at end of
\* stream
StdinLines == {<<"h", "\n">>, <<" ", "\n">>, <<" ", "i", "\n">>}
EndOfStream == <<>>

NoLife ==
    [enabled |-> {}, bridge |-> "idle", task |-> [k \in ShutdownTasks |-> "idle"],
     server |-> "none", stdin_running |-> FALSE, reader |-> "none", line |-> <<>>,
     last_read |-> <<>>,
     stops |-> [a \in Adapters |-> 0], error |-> FALSE]

LifeIdle == life = NoLife

\* config.file.enabled, config.socket.enabled, config.service.enabled
LifeInit ==
    \E en \in SUBSET {"file", "socket", "service"} : life = [NoLife EXCEPT !.enabled = en]

\* life.server: "none" before any server exists, "listening" for the server
\* start_unix_server has created and start() has not yet stored in
\* self.server, "open" once it is stored, "closed" after server.close()
\* if self.server:
ServerStored == life.server \in {"open", "closed"}

\* await self.service_handler.start(): returns at once when not enabled
ServiceStartIfEnabled ==
    IF "service" \in life.enabled
    THEN ServiceStartEffect
    ELSE UNCHANGED <<service_running, script_cache, dir_exists, last_load,
                     message_handlers>>

\* DiscordBotCLI.start up to its first suspension: stdin_handler.start()
\* sets running and creates the _read_stdin task, file_handler.start(),
\* socket_handler.start() up to await asyncio.start_unix_server(...), which
\* binds the path and yields to the event loop once; without a socket
\* adapter, on to service_handler.start() and await self.bot.start().
bridge_start ==
    /\ life.bridge = "idle"
    /\ IF "file" \in life.enabled
       THEN FileStartEffect
       ELSE UNCHANGED <<file_running, detect, observer>>
    /\ IF "socket" \in life.enabled
       THEN /\ SocketStartEffect
            /\ UNCHANGED <<service_running, script_cache, dir_exists, last_load,
                           message_handlers>>
       ELSE /\ UNCHANGED <<sock_running, sock_starts, socket_file>>
            /\ ServiceStartIfEnabled
    /\ life' = [life EXCEPT !.stdin_running = TRUE, !.reader = "top",
                            !.server = IF "socket" \in life.enabled
                                       THEN "listening" ELSE "none",
                            !.bridge = IF "socket" \in life.enabled
                                       THEN "socket_starting" ELSE "bot_running"]
    /\ UNCHANGED <<sent, notLife>>

\* start_unix_server returns: self.server = ..., os.chmod(socket_path, mode)
\* (raises FileNotFoundError when the path is gone: except Exception: raise,
\* then the finally clause), service_handler.start(), await self.bot.start()
bridge_start_resume ==
    /\ life.bridge = "socket_starting"
    /\ IF socket_file = "socket"
       THEN ServiceStartIfEnabled
       ELSE UNCHANGED <<service_running, script_cache, dir_exists, last_load,
                        message_handlers>>
    /\ life' = [life EXCEPT !.server = "open",
                            !.bridge = IF socket_file = "socket"
                                       THEN "bot_running" ELSE "finally"]
    /\ UNCHANGED <<sent, file_running, detect, observer, sock_running, sock_starts,
                   socket_file, notLife>>

\* await self.bot.start() returns or raises (the client was closed, the
\* login failed, KeyboardInterrupt): the finally clause is reached
bot_start_returns ==
    /\ life.bridge = "bot_running"
    /\ life' = [life EXCEPT !.bridge = "finally"]
    /\ UNCHANGED <<sent, file_running, detect, observer, sock_running, sock_starts,
                   socket_file, service_running, script_cache, dir_exists, last_load,
                   message_handlers, notLife>>

\* One shutdown() task from its start to its first suspension:
\* stdin_handler.stop(), file_handler.stop(), socket_handler.stop() (running
\* = False; if self.server: server.close(), await server.wait_closed(),
\* which may have to wait for open connections), and when nothing suspends
\* the rest of socket_handler.stop(), service_handler.stop() and
\* bot.stop() up to await self.bot.close().
shutdown_begin(k, suspends) ==
    /\ life.task[k] = "idle"
    /\ k = "signal" => life.bridge # "idle"
    /\ k = "finally" => life.bridge = "finally"
    /\ suspends => ServerStored
    /\ FileStopEffect
    /\ sock_running' = FALSE
    /\ socket_file' = IF suspends THEN socket_file ELSE StopUnlink(socket_file).file
    /\ service_running' = IF suspends THEN service_running ELSE FALSE
    /\ life' = [life EXCEPT
                  !.stdin_running = FALSE,
                  !.server = IF ServerStored THEN "closed" ELSE @,
                  !.task[k] = IF suspends THEN "wait_closed" ELSE "bot_close",
                  !.stops = [a \in Adapters |->
                               IF a = "service" /\ suspends THEN @[a] ELSE @[a] + 1],
                  !.error = @ \/ (~suspends /\ StopUnlink(socket_file).raises)]
    /\ UNCHANGED <<sent, detect, sock_starts, script_cache, dir_exists, last_load,
                   message_handlers, notLife>>

\* server.wait_closed() returns: the socket file is removed if it exists,
\* service_handler.stop(), bot.stop() up to await self.bot.close()
shutdown_resume(k) ==
    /\ life.task[k] = "wait_closed"
    /\ socket_file' = StopUnlink(socket_file).file
    /\ service_running' = FALSE
    /\ life' = [life EXCEPT !.task[k] = "bot_close",
                            !.stops["service"] = @ + 1,
                            !.error = @ \/ StopUnlink(socket_file).raises]
    /\ UNCHANGED <<sent, file_running, detect, observer, sock_running, sock_starts,
                   script_cache, dir_exists, last_load, message_handlers, notLife>>

\* self.bot.close() returns and shutdown() with it
shutdown_done(k) ==
    /\ life.task[k] = "bot_close"
    /\ life' = [life EXCEPT !.task[k] = "done"]
    /\ UNCHANGED <<sent, file_running, detect, observer, sock_running, sock_starts,
                   socket_file, service_running, script_cache, dir_exists, last_load,
                   message_handlers, notLife>>

\* while self.running: the read loop goes on to the next readline or ends
ReaderTop == IF life.stdin_running THEN "readline" ELSE "ended"

lifeLoop == <<file_running, detect, observer, sock_running, sock_starts, socket_file,
              service_running, script_cache, dir_exists, last_load, message_handlers,
              notLife>>

\* the _read_stdin task runs for the first time
read_stdin_begin ==
    /\ life.reader = "top"
    /\ life' = [life EXCEPT !.reader = ReaderTop]
    /\ UNCHANGED <<sent, lifeLoop>>

\* line = line.strip()
StdinText_Raw(line) == line
StdinText(line) == strip(line)

\* run_in_executor(None, sys.stdin.readline) returns line, or raises: at end
\* of stream or on an exception the loop breaks, a blank line continues, any
\* other line is stripped and handed to bot.send_message.  life.last_read is
\* what readline returned last.
readline_returns(line, raises) ==
    /\ life.reader = "readline"
    /\ raises => line = EndOfStream
    /\ life' = IF raises
               THEN [life EXCEPT !.reader = "ended"]
               ELSE IF line = EndOfStream
               THEN [life EXCEPT !.reader = "ended", !.last_read = line]
               ELSE IF StdinText(line) = <<>>
               THEN [life EXCEPT !.reader = ReaderTop, !.last_read = line]
               ELSE [life EXCEPT !.reader = "send", !.line = StdinText(line),
                                 !.last_read = line]
    /\ UNCHANGED <<sent, lifeLoop>>

\* await self.bot.send_message(line) returns success
stdin_send_done(success) ==
    /\ life.reader = "send"
    /\ success => Len(sent) < MaxSends
    /\ sent' = IF success THEN Append(sent, life.line) ELSE sent
    /\ life' = [life EXCEPT !.reader = ReaderTop, !.line = <<>>]
    /\ UNCHANGED lifeLoop

LifeNext ==
    \/ bridge_start
    \/ bridge_start_resume
    \/ bot_start_returns
    \/ \E k \in ShutdownTasks, suspends \in BOOLEAN : shutdown_begin(k, suspends)
    \/ \E k \in ShutdownTasks : shutdown_resume(k)
    \/ \E k \in ShutdownTasks : shutdown_done(k)
    \/ read_stdin_begin
    \/ \E line \in StdinLines \cup {EndOfStream}, raises \in BOOLEAN :
          readline_returns(line, raises)
    \/ \E ok \in BOOLEAN : stdin_send_done(ok)

(***************************************************************************)
(* The consumers of an inbound message: handle_discord_message (console    *)
(* and output file) and ServiceHandler._handle_service_message             *)
(***************************************************************************)
\* BotConfig.prefix as configured by default, the script mapping and the
\* allow-list the messages are routed under
FanPrefix == <<"!">>
FanCache == {"ls"}
FanAllowed == {}

\* the texts of inbound messages: plain, a command, a command after a
\* blank, and a text of two lines
InboundTexts == {<<"l">>, <<"!", "l", "s">>, <<" ", "!", "l", "s">>, <<"l", "\n", "l">>}

\* what other users write: any of the texts in channel 1, a command in
\* channel 2
UserMessages ==
    {[author |-> "alice", channel |-> 1, text |-> t] : t \in InboundTexts}
        \cup {[author |-> "alice", channel |-> 2, text |-> <<"!", "l", "s">>]}

\* the chat service delivers the bot's own sends back to it: authored by the
\* bot, in the channel send_message sent them to, with the text sent
OwnMessages ==
    {[author |-> BotUser, channel |-> channel_id, text |-> t] : t \in Range(sent)}

\* the standard output of the script ls of this model: a line that is itself
\* a command
ScriptPrints == <<"!", "l", "s">>

NoInbound == [author |-> "-", channel |-> 0, text |-> <<>>]
NotRouted == [delegated |-> FALSE, command |-> "", branch |-> "none",
              launches |-> 0, sends |-> 0]

\* f"[{message.author}] {message.content}" with the newline that print and
\* write_output_file put after it
Render(msg) == <<"[", msg.author, "]", " ">> \o msg.text \o <<"\n">>

\* aiofiles.open(output_path, 'a'): what is written goes after the content
AppendWrite_Truncating(content, data) == data
AppendWrite(content, data) == content \o data

FanIdle ==
    /\ inbound = [m \in MsgIds |-> NoInbound]
    /\ stdout = <<>>
    /\ output_file = [configured |-> FALSE, content |-> <<>>]
    /\ routed = [m \in MsgIds |-> NotRouted]

\* The bridge is started: handle_discord_message was registered by
\* DiscordBotCLI.__init__, _handle_service_message after it by
\* ServiceHandler.start when service mode is enabled; the output file, when
\* one is configured, has content from an earlier run.
FanInit ==
    /\ channel_id \in {0, 1}
    /\ message_handlers \in {<<"handle_discord_message">>,
                             <<"handle_discord_message", "_handle_service_message">>}
    /\ bot_started = TRUE
    /\ bot_state = [is_running |-> TRUE, is_ready |-> TRUE]
    /\ dispatch = [m \in MsgIds |-> NoDispatch]
    /\ invoked = [m \in MsgIds |-> <<>>]
    /\ finished = [m \in MsgIds |-> <<>>]
    /\ inbound = [m \in MsgIds |-> NoInbound]
    /\ stdout = <<>>
    /\ output_file \in {[configured |-> FALSE, content |-> <<>>],
                        [configured |-> TRUE, content |-> <<"o", "\n">>]}
    /\ routed = [m \in MsgIds |-> NotRouted]

\* the handler the for loop of on_message is at for message m
FanHandler(m) ==
    IF dispatch[m].k \in 1..Len(message_handlers)
    THEN HandlerAt(message_handlers, dispatch[m].k)
    ELSE "-"

\* on_message is entered for the inbound message msg; the filter runs
deliver(m, msg) ==
    /\ dispatch[m].st = "none"
    /\ \A m2 \in MsgIds : m2 < m => dispatch[m2].st # "none"
    /\ inbound' = [inbound EXCEPT ![m] = msg]
    /\ dispatch' = [dispatch EXCEPT ![m] =
                      IF Filtered(msg.author, msg.channel)
                      THEN [st |-> "filtered", k |-> 0]
                      ELSE [st |-> "loop", k |-> 1]]
    /\ UNCHANGED <<invoked, sent, stdout, output_file, routed, notFan>>

\* handle_discord_message is called: write_stdout prints and flushes the
\* line, write_output_file returns at once when no output file is configured
\* and else suspends in aiofiles.open
call_handle_discord_message(m) ==
    /\ dispatch[m].st = "loop"
    /\ FanHandler(m) = "handle_discord_message"
    /\ invoked' = [invoked EXCEPT ![m] =
                      Append(@, [idx |-> dispatch[m].k, h |-> FanHandler(m)])]
    /\ stdout' = stdout \o Render(inbound[m])
    /\ dispatch' = IF output_file.configured
                   THEN [dispatch EXCEPT ![m].st = "awaiting"]
                   ELSE [dispatch EXCEPT ![m].k = @ + 1]
    /\ UNCHANGED <<inbound, sent, output_file, routed, notFan>>

\* async with aiofiles.open(...) as f: await f.write(f"{message}\n"): the
\* line reaches the file in one append when the buffer is flushed
write_output_file(m) ==
    /\ dispatch[m].st = "awaiting"
    /\ FanHandler(m) = "handle_discord_message"
    /\ output_file' = [output_file EXCEPT
                         !.content = AppendWrite(@, Render(inbound[m]))]
    /\ dispatch' = [dispatch EXCEPT ![m].st = "loop", ![m].k = @ + 1]
    /\ UNCHANGED <<inbound, invoked, sent, stdout, routed, notFan>>

\* _handle_service_message is called: the text is parsed; without a command
\* it returns, else _execute_command resolves the command and launches the
\* script, and the handler goes on to await bot.send_message(response).
\* routed[m] counts the launches and the sends made for message m over all
\* the calls the for loop of on_message makes.
call_handle_service_message(m) ==
    /\ dispatch[m].st = "loop"
    /\ FanHandler(m) = "_handle_service_message"
    /\ invoked' = [invoked EXCEPT ![m] =
                      Append(@, [idx |-> dispatch[m].k, h |-> FanHandler(m)])]
    /\ LET out == ParseCommand(inbound[m].text, FanPrefix)
           command == ToStr(out.command)
           branch == IF out.delegated THEN Resolve(command, FanAllowed, FanCache)
                     ELSE "none"
       IN  /\ routed' = [routed EXCEPT ![m] =
                            [delegated |-> out.delegated, command |-> command,
                             branch |-> branch,
                             launches |-> routed[m].launches
                                            + IF branch \in {"script", "system"}
                                              THEN 1 ELSE 0,
                             sends |-> routed[m].sends]]
           /\ dispatch' = IF out.delegated
                          THEN [dispatch EXCEPT ![m].st = "awaiting"]
                          ELSE [dispatch EXCEPT ![m].k = @ + 1]
    /\ UNCHANGED <<inbound, sent, stdout, output_file, notFan>>

\* await self.bot.send_message(response) returns; send_message returns False
\* when no channel is configured
service_send_done(m, success) ==
    /\ dispatch[m].st = "awaiting"
    /\ FanHandler(m) = "_handle_service_message"
    /\ success => channel_id # 0
    /\ routed' = [routed EXCEPT ![m].sends = @ + 1]
    /\ sent' = IF success THEN Append(sent, ScriptPrints) ELSE sent
    /\ dispatch' = [dispatch EXCEPT ![m].st = "loop", ![m].k = @ + 1]
    /\ UNCHANGED <<inbound, invoked, stdout, output_file, notFan>>

FanoutNext ==
    \/ \E m \in MsgIds : \E msg \in UserMessages \cup OwnMessages : deliver(m, msg)
    \/ \E m \in MsgIds : call_handle_discord_message(m)
    \/ \E m \in MsgIds : write_output_file(m)
    \/ \E m \in MsgIds : call_handle_service_message(m)
    \/ \E m \in MsgIds, success \in BOOLEAN : service_send_done(m, success)
    \/ \E m \in MsgIds : process_commands(m)

\* ServiceHandler.start called on a handler whatever its state: start tests
\* config.service.enabled only, never self.running, and registers
\* _handle_service_message with the dispatcher on every call. stop leaves
\* message_handlers alone (service_stop).
service_start_anytime ==
    /\ Len(message_handlers) <= MaxHandlers
    /\ ServiceStartEffect
    /\ UNCHANGED <<allowed_commands, script_dir, dir_changes, req, sent, notSvc>>

\* what other users write while the service handler is started and stopped
RestartMessages ==
    {[author |-> "alice", channel |-> 1, text |-> t] :
        t \in {<<"l">>, <<"!", "l", "s">>}}

\* Messages are dispatched while ServiceHandler.start and stop are called
\* in any order.
RestartNext ==
    \/ service_start_anytime
    \/ service_stop
    \/ \E m \in MsgIds : \E msg \in RestartMessages : deliver(m, msg)
    \/ \E m \in MsgIds : call_handle_discord_message(m)
    \/ \E m \in MsgIds : call_handle_service_message(m)
    \/ \E m \in MsgIds, success \in BOOLEAN : service_send_done(m, success)
    \/ \E m \in MsgIds : process_commands(m)

\* Status requests, whose frames arrive whole, while the chat client becomes
\* ready, disconnects and is stopped.
StatusNext ==
    \/ socket_start
    \/ \E c \in ConnIds : client_connect(c)
    \/ \E c \in ConnIds : client_send_frame(c, StatusPayload)
    \/ \E c \in ConnIds : data_received(c, Len(wire[c]))
    \/ \E c \in ConnIds, paused \in BOOLEAN : read_length(c, paused)
    \/ \E c \in ConnIds : drain_done(c)
    \/ on_ready
    \/ \E cleared \in BOOLEAN : on_disconnect(cleared)
    \/ bot_stop

\* a subsystem that is not exercised stays as constructed, with the default
\* configuration
BotIdle == BotInit /\ channel_id = 0
SvcIdle == SvcInit /\ allowed_commands = {} /\ ~dir_exists
SockIdle == SockInit /\ socket_file = "absent"

InitBot ==
    BotInit /\ sent = <<>> /\ FileInit /\ SvcIdle /\ SockIdle /\ RouteIdle /\ LifeIdle /\ FanIdle
InitFile ==
    BotIdle /\ sent = <<>> /\ FileInit /\ SvcIdle /\ SockIdle /\ RouteIdle /\ LifeIdle /\ FanIdle
InitSvc ==
    BotIdle /\ sent = <<>> /\ FileInit /\ SvcInit /\ SockIdle /\ RouteIdle /\ LifeIdle /\ FanIdle
InitSock ==
    BotIdle /\ sent = <<>> /\ FileInit /\ SvcIdle /\ SockInit /\ RouteIdle /\ LifeIdle /\ FanIdle
InitRoute ==
    BotIdle /\ sent = <<>> /\ FileInit /\ SvcIdle /\ SockIdle /\ RouteInit /\ LifeIdle /\ FanIdle
InitLife ==
    BotIdle /\ sent = <<>> /\ FileInit /\ SvcIdle /\ SockInit /\ RouteIdle /\ LifeInit /\ FanIdle

SpecBot == InitBot /\ [][BotNext]_vars

SpecFile == InitFile /\ [][FileNext]_vars

SpecSvc == InitSvc /\ [][SvcNext]_vars

SpecSock == InitSock /\ [][SockNext]_vars

SpecConns == InitSock /\ [][ConnsNext]_vars

SpecRoute == InitRoute /\ [][RouteNext]_vars

SpecStatus == InitSock /\ [][StatusNext]_vars

InitFanout ==
    FanInit /\ sent = <<>> /\ FileInit /\ SvcIdle /\ SockIdle /\ RouteIdle /\ LifeIdle

SpecFanout == InitFanout /\ [][FanoutNext]_vars

SpecLife == InitLife /\ [][LifeNext]_vars

\* The bridge is constructed with service mode enabled, no output file and
\* the script ls in the script directory; ServiceHandler.start was not yet
\* called.
InitRestart ==
    /\ FanInit /\ message_handlers = <<"handle_discord_message">>
    /\ ~output_file.configured
    /\ sent = <<>> /\ FileInit /\ SockIdle /\ RouteIdle /\ LifeIdle
    /\ SvcInit /\ allowed_commands = FanAllowed /\ dir_exists
    /\ script_dir = [n \in ScriptNames |-> IF n \in FanCache THEN "exec" ELSE "absent"]

SpecRestart == InitRestart /\ [][RestartNext]_vars

(***************************************************************************)
(* Properties of the dispatcher                                            *)
(***************************************************************************)
\* on_message has returned to, or raised into, its caller
Completed(m) == dispatch[m].st \in {"done", "raised"}

CallsOf(m, i) == {j \in DOMAIN invoked[m] : invoked[m][j].idx = i}

\* C1: when a consumer raises an error during the dispatch of a message that
\* passed the filter, every registered consumer (in particular every other
\* one) has been invoked exactly once for that message when dispatch ends.
C1_RaiseDoesNotStopOthers ==
    \A m \in MsgIds :
        (Completed(m) /\ "raise" \in Range(finished[m])) =>
            \A i \in 1..Len(message_handlers) : Cardinality(CallsOf(m, i)) = 1

\* the first consumer raised, the one after it was still called and returned,
\* and the dispatch ended
C1_Witness ==
    \E m \in MsgIds :
        /\ dispatch[m].st = "done"
        /\ Len(message_handlers) = 2
        /\ finished[m] = <<"raise", "return">>

\* C2: within one dispatch the consumers are invoked in registration order,
\* at most one call is outstanding and the next call starts only after the
\* previous one finished or failed, dispatch ends only after the last call
\* ended, and no consumer failure leaves on_message.
C2_OrderedSequentialContained ==
    \A m \in MsgIds :
        /\ Len(invoked[m]) <= Len(message_handlers)
        /\ \A j \in DOMAIN invoked[m] :
              /\ invoked[m][j].idx = j
              /\ invoked[m][j].h = message_handlers[j]
        /\ Len(invoked[m]) - Len(finished[m]) =
              (IF dispatch[m].st = "awaiting" THEN 1 ELSE 0)
        /\ dispatch[m].st = "done" =>
              Len(finished[m]) = Len(message_handlers)
        /\ dispatch[m].st # "raised"

\* two different consumers, the first failed, the second was called after it
C2_Witness ==
    \E m \in MsgIds :
        /\ dispatch[m].st = "done"
        /\ Len(message_handlers) >= 2
        /\ message_handlers[1] # message_handlers[2]
        /\ finished[m][1] = "raise"
        /\ Len(invoked[m]) = Len(message_handlers)

(***************************************************************************)
(* Properties of the mailbox file                                          *)
(***************************************************************************)
\* C3: a detection that read non-empty content and sent it successfully
\* leaves the file empty (no write having come in between), every send
\* carries trimmed written content, and there is at most one send per write.
C3_OneSendThenEmpty ==
    /\ \A d \in Detectors :
          (last_processed[d].ok /\ ~last_processed[d].raced) =>
              last_processed[d].empty_after
    /\ \A i \in DOMAIN sent : \E c \in Contents : sent[i] = strip(c)
    /\ Len(sent) <= writes

\* C11: the watch trigger and the poll trigger of one write produce at most
\* one send between them (never more sends than writes), and no trigger ends
\* in an error: the one that comes second finds the file empty and returns.
C11_RaceYieldsOneSend ==
    /\ observer.st # "failed"
    /\ \A d \in Detectors : detect[d].pc \in {"send", "truncate"} => Len(sent) < writes
    /\ Len(sent) <= writes

\* C29: the step in which the chat send of a detection returns false leaves
\* the mailbox file as it is and sends nothing, and every detection that
\* reads content reads what the file holds then: the content whose send
\* failed is still there for the next detection.
C29_FailedSendKeepsMailbox ==
    [][\A d \in Detectors :
          /\ (/\ detect[d].pc = "send"
               /\ detect'[d].pc \notin {"send", "truncate"})
              => (input_file' = input_file /\ sent' = sent)
          /\ (detect[d].pc # "send" /\ detect'[d].pc = "send")
              => detect'[d].content = input_file]_vars

\* a send has failed, the content is still in the file, and the next
\* detection of the same trigger has read it again
C29_Witness ==
    \E d \in Detectors :
        /\ last_processed[d].ended
        /\ ~last_processed[d].ok
        /\ ~last_processed[d].raced
        /\ sent = <<>>
        /\ detect[d].pc = "send"
        /\ detect[d].content = input_file
        /\ writes = 1

(***************************************************************************)
(* Properties of the adapters' start and stop                              *)
(***************************************************************************)
\* the running flag of an adapter and the resources its stop() releases
AdapterView(a) ==
    CASE a = "stdin" -> <<life.stdin_running>>
      [] a = "file" -> <<file_running, observer>>
      [] a = "socket" -> <<sock_running, life.server, socket_file>>
      [] OTHER -> <<service_running>>

\* the adapter does not run and holds none of its resources
Stopped(a) ==
    CASE a = "stdin" -> ~life.stdin_running
      [] a = "file" -> ~file_running /\ observer.st # "running"
      [] a = "socket" -> /\ ~sock_running
                         /\ life.server \in {"none", "closed"}
                         /\ socket_file # "socket"
      [] OTHER -> ~service_running

\* start() has been called on the adapter and has not returned at once
Started(a) ==
    CASE a = "stdin" -> life.reader # "none"
      [] a = "file" -> observer.st # "none"
      [] a = "socket" -> sock_starts > 0
      [] OTHER -> "_handle_service_message" \in Range(message_handlers)

\* C19: no stop() call raises; an adapter that was started and has reached
\* the stopped state stays stopped, and every adapter is stopped once the
\* stop() calls made by start()'s finally clause have returned; a further
\* stop() call on an adapter that was stopped before and is stopped leaves
\* its running flag and its resources as they are.  The shutdown() task of
\* a signal and the one of the finally clause both run.
C19_DoubleStopIsNoOp ==
    /\ [](~life.error)
    /\ [](life.task["finally"] \in {"bot_close", "done"} =>
             \A a \in Adapters : Stopped(a))
    /\ [][\A a \in Adapters : (Started(a) /\ Stopped(a)) => Stopped(a)']_vars
    /\ [][\A a \in Adapters :
             (life'.stops[a] > life.stops[a] /\ life.stops[a] >= 1 /\ Stopped(a)) =>
                 AdapterView(a)' = AdapterView(a)]_vars

\* all adapters were started, both shutdown() tasks have run to their end,
\* and stop() was called twice on every adapter
C19_Witness ==
    /\ life.enabled = {"file", "socket", "service"}
    /\ sock_starts = 1
    /\ \A k \in ShutdownTasks : life.task[k] = "done"
    /\ \A a \in Adapters : life.stops[a] = 2 /\ Stopped(a)

\* the positions at which a loop is inside a blocking call: the console
\* loop in readline or in the chat send; the poll loop in its sleep, in the
\* chat send or about to truncate; a connection loop in a read, in the chat
\* send or in drain
ReaderBlocking == {"readline", "send"}
PollBlocking == {"sleep", "send", "truncate"}
ConnBlocking == {"read_len", "read_body", "send", "drain"}

\* C20: once stop() has cleared the running flag, a loop whose blocking call
\* returns starts no further blocking call: the console read loop, the file
\* poll loop and every socket connection loop leave the call they are in
\* for a position outside any blocking call.
C20_LoopExitsAfterStop ==
    [][/\ (/\ ~life.stdin_running
           /\ life.reader \in ReaderBlocking
           /\ life'.reader # life.reader) => life'.reader \notin ReaderBlocking
       /\ (/\ ~file_running
           /\ detect["poll"].pc \in PollBlocking
           /\ detect'["poll"].pc # detect["poll"].pc)
          => detect'["poll"].pc \notin PollBlocking
       /\ \A c \in ConnIds :
            (/\ ~sock_running
             /\ conn[c].pc \in ConnBlocking
             /\ conn'[c].pc # conn[c].pc) => conn'[c].pc \notin ConnBlocking]_vars

(***************************************************************************)
(* Properties of the service router                                        *)
(***************************************************************************)
\* the text with exactly the prefix taken off its head
WithoutPrefix(text, prefix) == SubSeq(text, Len(prefix) + 1, Len(text))

\* C14: for a text that begins with the configured prefix, what is delegated
\* is the first word of the text without that prefix as the command and the
\* words after it as the arguments; nothing is delegated when no word is left.
C14_PrefixStripped ==
    (route.pc = "done" /\ startswith(route.text, route.prefix)) =>
        LET words == split(WithoutPrefix(route.text, route.prefix))
        IN  route.out = IF words = <<>> THEN NothingDelegated
                        ELSE [delegated |-> TRUE, command |-> Head(words),
                              args |-> Tail(words)]

\* the words of a routed text once exactly its prefix is taken off
RoutedWords == split(WithoutPrefix(route.text, route.prefix))

\* C15: with an empty allow-list, a message that begins with the prefix and
\* whose command names a script of the mapping launches that script with the
\* remaining tokens as its arguments; a request for a script is launched at
\* most once, and the one text sent for a child that exited with status
\* zero and non-empty output is its trimmed standard output.
C15_ScriptLaunchedAndAnswered ==
    /\ (/\ route.pc = "done"
        /\ route.allowed = {}
        /\ startswith(route.text, route.prefix)
        /\ RoutedWords # <<>>
        /\ ToStr(Head(RoutedWords)) \in route.cache)
       => /\ route.branch = "script"
          /\ route.launch.argv =
                <<ScriptPath(ToStr(Head(RoutedWords)))>> \o Tokens(Tail(RoutedWords))
    /\ \A r \in ReqIds :
          (allowed_commands = {} /\ req[r].branch = "script") =>
             /\ req[r].launches <= 1
             /\ req[r].pc \in {"spawn", "wait"} =>
                   Launch(req[r]).argv = <<ScriptPath(req[r].command)>> \o req[r].args
             /\ (/\ req[r].pc = "reply"
                 /\ req[r].result \in {"output", "success_text"}
                 /\ strip(req[r].stdout) # <<>>)
                => /\ req[r].launches = 1
                   /\ req[r].sends = 1
                   /\ req[r].sending = strip(req[r].stdout)

\* the names of the variables the message metadata is injected under
OverlayNames == {"MESSAGE_ID", "AUTHOR", "CHANNEL_ID", "GUILD_ID",
                 "MESSAGE_CONTENT", "ARGS"}

\* the value env gives to the variable name, plain or in the DISCORD_ namespace
OverlayValue(env, name) ==
    IF name \in DOMAIN env THEN env[name] ELSE env["DISCORD_" \o name]

HasOverlay(env) ==
    \A name \in OverlayNames :
        name \in DOMAIN env \/ ("DISCORD_" \o name) \in DOMAIN env

\* C16: every create_subprocess_exec call, for a script as for a system
\* command, passes the six metadata variables, ARGS being the arguments
\* joined by single spaces, and the configured working directory.
C16_ChildGetsOverlayAndCwd ==
    \A r \in ReqIds :
        req[r].pc \in {"spawn", "wait"} =>
            /\ HasOverlay(Launch(req[r]).env)
            /\ OverlayValue(Launch(req[r]).env, "ARGS") = Join(req[r].args)
            /\ Launch(req[r]).cwd = "working_directory"

\* C17: a name the allow-list rules out is rejected; otherwise a name of the
\* script mapping runs the script, also when it is the name of a system
\* command or of a built-in; a system command runs only for a name that is
\* no script; a built-in only for a name that is neither; a name that is
\* none of these gets the unknown-command reply.
C17_ResolutionOrder ==
    route.pc = "resolved" =>
        LET c == route.command
            passes == route.allowed = {} \/ c \in route.allowed
            script == c \in route.cache
            system == c \in SystemCommands
            builtin == c \in Builtins
        IN  /\ ~passes => route.branch = "rejected" /\ route.result = "not_allowed"
            /\ (passes /\ script) => route.branch = "script"
            /\ (passes /\ ~script /\ system) => route.branch = "system"
            /\ (passes /\ ~script /\ ~system /\ builtin) => route.branch = "builtin"
            /\ (passes /\ ~script /\ ~system /\ ~builtin) =>
                   route.branch = "unknown" /\ route.result = "unknown_command"

\* the name ls, which the allow-list lets through and which is a script as
\* well as a system command, has been resolved to the script
C17_Witness ==
    /\ route.pc = "resolved"
    /\ route.command = "ls"
    /\ {"ls", "help", "reload"} \subseteq route.cache
    /\ route.allowed = {"ls", "help"}
    /\ route.branch = "script"

(***************************************************************************)
(* Properties of the script executor                                       *)
(***************************************************************************)
\* C18: no execution request is ever left with an exception raised out of
\* the executor, and whatever the outcome (immediate answer, launch failure,
\* exit with any status, timeout) the result handed on for sending is a
\* non-empty text.
C18_OutcomesAreTexts ==
    \A r \in ReqIds :
        /\ req[r].pc # "raised"
        /\ req[r].pc = "reply" => (req[r].sending # <<>> /\ req[r].result # "none")

\* a launch failed (the cached script is gone, or the program was not found)
\* and the request holds the error text
C18_Witness ==
    \E r \in ReqIds :
        /\ req[r].pc = "reply"
        /\ req[r].result = "launch_error"
        /\ req[r].sending # <<>>

\* C4: an execution that returned the timed-out result has left no running
\* child process behind, for a script as for a system command.
C4_TimeoutLeavesNoChild ==
    \A r \in ReqIds : req[r].result = "timed_out" => req[r].child # "running"

NotAllowed(r) ==
    /\ req[r].pc \in {"spawn", "wait", "reply"}
    /\ allowed_commands # {}
    /\ req[r].command \notin allowed_commands

\* C5: with a non-empty allow-list, a command that is not in it is rejected:
\* its result is the not-allowed text, no child process is ever launched for
\* it and no built-in runs, whatever else its name matches.
C5_NotAllowedIsRejected ==
    \A r \in ReqIds :
        NotAllowed(r) =>
            /\ req[r].branch = "rejected"
            /\ req[r].result = "not_allowed"
            /\ req[r].child = "none"
            /\ req[r].pc = "reply"

\* a rejected command whose name is both a loaded script and a system command
C5_Witness ==
    \E r \in ReqIds :
        /\ NotAllowed(r)
        /\ req[r].result = "not_allowed"
        /\ req[r].command \in script_cache
        /\ req[r].command \in SystemCommands

\* C9: the mapping a lookup is answered from is the script set of one
\* directory scan (the load before or the load after a reload), never a
\* blend of the entries of two different scans.
C9_LookupFromOneScan ==
    \A r \in ReqIds : req[r].lookup # "blend"

\* C10: after every (re)load the mapping is exactly the set of executable
\* regular files the directory held at that time.
C10_CacheIsDirectoryAtReload == last_load.cache = last_load.found

(***************************************************************************)
(* Properties of the socket framing                                        *)
(***************************************************************************)
IsPrefix(s, t) == Len(s) <= Len(t) /\ s = SubSeq(t, 1, Len(s))

\* C6: what the server decodes from the bytes of the frame encoder is the
\* payload that was encoded: on a connection whose client wrote whole frames
\* only, the payloads taken by the server are the payloads sent, in order,
\* and the server never gives up on a frame as a short read.
C6_RoundTrip ==
    \A c \in ConnIds :
        ~client[c].truncated =>
            /\ IsPrefix(decoded[c], frames_sent[c])
            /\ conn[c].why # "short_read"

\* C7: a connection that closes inside its first frame yields no frame: the
\* server takes no payload from those bytes and writes no reply.
C7_TruncatedFrameYieldsNothing ==
    \A c \in ConnIds :
        (client[c].truncated /\ frames_sent[c] = <<>>) =>
            (decoded[c] = <<>> /\ replies[c] = <<>>)

Malformed(payload) ==
    \/ ~Utf8Valid(payload)
    \/ JsonLoads(Utf8Decode(payload)).type # "dict"

\* C8: every frame with a malformed payload is answered with an error reply
\* and the connection is not dropped because of it.
C8_MalformedGetsErrorReply ==
    \A c \in ConnIds :
        /\ conn[c].why # "exception"
        /\ \A j \in DOMAIN decoded[c] :
              Malformed(decoded[c][j]) =>
                  (j <= Len(replies[c]) /\ replies[c][j].kind = "error")

(***************************************************************************)
(* Properties of the connection loops                                      *)
(***************************************************************************)
\* the kind of reply the payload of a request frame calls for
ReplyKind(payload) ==
    IF ~Utf8Valid(payload) THEN "error"
    ELSE IF IsSend(Utf8Decode(payload)) THEN "send"
    ELSE process_socket_message(Utf8Decode(payload)).kind

\* C12: on one connection at most one request is taken and not yet answered,
\* no read of the next request is under way before the reply to the last one
\* is written, the i-th reply answers the i-th request frame, and when the
\* loop has ended on the client's end of stream every whole request frame
\* has got exactly one reply.
C12_RepliesInRequestOrder ==
    \A c \in ConnIds :
        /\ Len(decoded[c]) - Len(replies[c]) \in {0, 1}
        /\ conn[c].pc \in {"read_len", "read_body"} => Len(replies[c]) = Len(decoded[c])
        /\ \A i \in DOMAIN replies[c] :
              /\ i <= Len(frames_sent[c])
              /\ replies[c][i].kind = ReplyKind(frames_sent[c][i])
        /\ (~client[c].truncated /\ conn[c].pc = "closed" /\ conn[c].why # "-") =>
              (conn[c].why = "eof" /\ Len(replies[c]) = Len(frames_sent[c]))

\* a whole request frame has arrived on connection c and waits to be read
HasRequest(c) ==
    /\ conn[c].pc = "read_len"
    /\ \E p \in ConnPayloads : IsPrefix(encode_frame(p), conn[c].buffer)

\* the handler of connection c takes a step: it consumes buffered bytes or
\* leaves the await it was suspended in
HandlerStep(c) ==
    \/ Len(conn'[c].buffer) < Len(conn[c].buffer)
    \/ conn'[c].pc # conn[c].pc

\* C13: whatever await the handlers of the other connections are suspended
\* in, a connection on which a whole request frame has arrived, or whose
\* chat-service call is under way, can take its next step; and the step that
\* takes such a frame answers it or goes on to the chat-service call of a
\* send, the step that ends the chat-service call writes the reply.
C13_ConnectionsIndependent ==
    /\ [](\A c \in ConnIds :
             ((HasRequest(c) \/ conn[c].pc = "send") /\ OthersSuspended(c)) => Ready(c))
    /\ [][\A c \in ConnIds :
             ((HasRequest(c) \/ conn[c].pc = "send") /\ HandlerStep(c)) =>
                 \/ conn[c].pc = "read_len" /\ conn'[c].pc = "send"
                 \/ Len(replies'[c]) = Len(replies[c]) + 1]_vars

\* the first connection is suspended in drain (its client does not read) and
\* the second one has been answered while another handler was suspended
C13_Witness ==
    /\ conn[1].pc = "drain"
    /\ conn[2].overlap
    /\ Len(replies[2]) >= 1

\* the command tag of a request without a known tag, as Python prints it
\* (data.get('command') of an object without the key is None)
UnknownTag(payload) ==
    CASE payload = UnknownPayload -> "x"
      [] payload = EmptyObjectPayload -> "None"
      [] OTHER -> "-"

\* C21: a request whose command tag is not send, status or get_messages, or
\* is missing, is answered with the error reply "Unknown command: <tag>";
\* the step that takes it does not enter the chat-service call and leaves
\* the connection in its loop (at the next read, or draining the reply).
C21_UnknownCommandIsNamed ==
    /\ [](\A c \in ConnIds : \A i \in DOMAIN decoded[c] :
             UnknownTag(decoded[c][i]) # "-" =>
                 /\ i <= Len(replies[c])
                 /\ replies[c][i].kind = "error"
                 /\ replies[c][i].text = "Unknown command: " \o UnknownTag(decoded[c][i]))
    /\ [][\A c \in ConnIds :
             (/\ Len(decoded'[c]) = Len(decoded[c]) + 1
              /\ UnknownTag(decoded'[c][Len(decoded'[c])]) # "-") =>
                 /\ conn'[c].pc \in {"read_len", "drain"}
                 /\ conn'[c].why = "-"
                 /\ sent' = sent]_vars

\* both kinds of unknown request have been answered on one connection, which
\* is back at the read of the next request
C21_Witness ==
    /\ decoded[1] = <<UnknownPayload, EmptyObjectPayload>>
    /\ Len(replies[1]) = 2
    /\ conn[1].pc = "read_len"

\* C22: the step that takes a status request writes the reply whose
\* connected field is (client ready and is_running) and whose running field
\* is is_running, both as they are when the request is processed, and leaves
\* both flags as they are.
C22_StatusReportsFlags ==
    [][\A c \in ConnIds :
          (/\ Len(decoded'[c]) = Len(decoded[c]) + 1
           /\ decoded'[c][Len(decoded'[c])] = StatusPayload) =>
              /\ Len(replies'[c]) = Len(replies[c]) + 1
              /\ replies'[c][Len(replies'[c])] =
                     StatusReply(bot_state.is_ready /\ bot_state.is_running,
                                 bot_state.is_running)
              /\ bot_state' = bot_state]_vars

\* a status request was answered while the client was ready and running, the
\* next one after a disconnect that left the ready flag set
C22_Witness ==
    /\ replies[1] = <<StatusReply(TRUE, TRUE), StatusReply(FALSE, FALSE)>>
    /\ bot_state = [is_running |-> FALSE, is_ready |-> TRUE]

(***************************************************************************)
(* Properties of the consumers                                             *)
(***************************************************************************)
ServiceRegistered == "_handle_service_message" \in Range(message_handlers)

\* message m has reached the console, and the output file when one is
\* configured
Written(m) ==
    /\ \E i \in 0..Len(stdout) :
          SubSeq(stdout, i + 1, i + Len(Render(inbound[m]))) = Render(inbound[m])
    /\ output_file.configured =>
          \E i \in 0..Len(output_file.content) :
              SubSeq(output_file.content, i + 1, i + Len(Render(inbound[m])))
                  = Render(inbound[m])

\* what the dispatch of a message that the ServiceHandler ignores leaves:
\* nothing launched, nothing sent, the message written by the other consumer
Ignored(m) ==
    /\ routed[m].launches = 0
    /\ routed[m].sends = 0
    /\ dispatch[m].st = "done" => Written(m)

\* C23 as stated: a message that passed the filter and whose text does not
\* begin with the prefix launches nothing and sends nothing, and is written
\* to the console and the output file.
C23_NoPrefixIsIgnored ==
    \A m \in MsgIds :
        (/\ dispatch[m].st \notin {"none", "filtered"}
         /\ ~startswith(inbound[m].text, FanPrefix)) => Ignored(m)

\* C23 amended: the same for a message whose trimmed text does not begin
\* with the prefix (the handler trims the text before it looks for the
\* prefix).
C23_NoPrefixAfterTrimIsIgnored ==
    \A m \in MsgIds :
        (/\ dispatch[m].st \notin {"none", "filtered"}
         /\ ~startswith(strip(inbound[m].text), FanPrefix)) => Ignored(m)

\* a plain text went through both consumers: written, nothing routed
C23_Witness ==
    \E m \in MsgIds :
        /\ dispatch[m].st = "done"
        /\ ServiceRegistered
        /\ output_file.configured
        /\ inbound[m].text = <<"l">>
        /\ Len(invoked[m]) = 2

\* the number of line ends in a text
RECURSIVE Newlines(_)
Newlines(t) ==
    IF t = <<>> THEN 0
    ELSE (IF Head(t) = "\n" THEN 1 ELSE 0) + Newlines(Tail(t))

\* what a step has put after the content of the output file
Appended == SubSeq(output_file'.content, Len(output_file.content) + 1,
                   Len(output_file'.content))

\* C24: the output file only grows at its end: every step that changes it
\* leaves the previous content as a prefix of the new content, and what it
\* adds is exactly one line, the rendering of one dispatched message.
C24_AppendsOneLine ==
    [][output_file'.content # output_file.content =>
          /\ IsPrefix(output_file.content, output_file'.content)
          /\ \E m \in MsgIds :
                /\ dispatch[m].st = "awaiting"
                /\ Appended = Render(inbound[m])
          /\ Newlines(Appended) = 1]_vars

(***************************************************************************)
(* Properties of the console adapter                                       *)
(***************************************************************************)
\* the read loop leaves its await of readline
ReadReturns ==
    /\ life.reader = "readline"
    /\ (life'.reader # "readline" \/ life'.last_read # life.last_read)

\* C25: when readline returns a line that is not blank after trimming, the
\* loop goes to one bot.send_message call with the trimmed text, and reads
\* the next line only after that call has returned; the call adds at most
\* that text to what was sent; a blank line leads to no call; at the end of
\* the stream the loop ends with no call and no error.  So what was sent is
\* made of trimmed non-blank lines, in the order read.
C25_ConsoleForwardsTrimmedLines ==
    /\ [][/\ (ReadReturns /\ life'.last_read # EndOfStream
                           /\ strip(life'.last_read) # <<>>)
              => (/\ life'.reader \in {"send", "ended"}
                  /\ life'.reader = "send" => life'.line = strip(life'.last_read)
                  /\ sent' = sent)
          /\ (ReadReturns /\ life'.last_read # EndOfStream
                           /\ strip(life'.last_read) = <<>>)
              => (life'.reader \in {"readline", "ended"} /\ sent' = sent)
          /\ (ReadReturns /\ life'.last_read = EndOfStream)
              => (/\ life'.reader = "ended"
                  /\ sent' = sent
                  /\ life'.error = life.error)
          /\ (life.reader = "send" /\ life'.reader # "send")
              => (/\ sent' \in {sent, Append(sent, life.line)}
                  /\ life'.reader \in {"readline", "ended"})
          /\ sent' # sent => life.reader = "send"
          /\ life.reader = "ended" => life'.reader = "ended"]_vars
    /\ [](\A i \in DOMAIN sent :
             \E l \in StdinLines : strip(l) # <<>> /\ sent[i] = strip(l))

\* two lines were sent trimmed, in the order read, and the loop has ended at
\* the end of the stream
C25_Witness ==
    /\ sent = <<<<"h">>, <<"i">>>>
    /\ life.last_read = EndOfStream
    /\ life.reader = "ended"

(***************************************************************************)
(* Properties of the socket file                                           *)
(***************************************************************************)
SocketEnabled == "socket" \in life.enabled

\* DiscordBotCLI.start is past socket_handler.start(), which has returned
StartCompleted ==
    \/ life.bridge = "bot_running"
    \/ life.bridge = "finally" /\ life.server # "none" /\ life.stops["socket"] = 0

\* C26: for an enabled socket adapter, once start() listens the file at the
\* path is the server's socket and no earlier file; from the completion of
\* start() until a stop() begins the socket file exists; once a stop() call
\* has completed no file exists at the path.
C26_SocketFileLifecycle ==
    SocketEnabled =>
        /\ (life.bridge = "socket_starting" /\ life.stops["socket"] = 0) =>
               socket_file = "socket"
        /\ (StartCompleted /\ life.stops["socket"] = 0) => socket_file = "socket"
        /\ (\E k \in ShutdownTasks : life.task[k] \in {"bot_close", "done"}) =>
               socket_file = "absent"

\* the server was started and stored, and the shutdown of the finally clause
\* has run to its end
C26_Witness ==
    /\ SocketEnabled
    /\ sock_starts = 1
    /\ life.server = "closed"
    /\ life.task["finally"] = "done"
    /\ life.task["signal"] = "idle"
    /\ socket_file = "absent"

\* C27: execute_script_direct launches the script and returns its execution
\* result for a name of the script mapping, and returns the not-found text
\* without a launch for any other name.
C27_DirectLaunchesMappedScript ==
    route.pc = "returned" =>
        IF route.script_name \in route.cache
        THEN route.launches = 1 /\ route.result = "execution result"
        ELSE /\ route.launches = 0
             /\ route.result = "Script '" \o route.script_name \o "' not found"

\* C28: while the client keeps its connection open, whatever chunks the
\* bytes of its whole frames arrive in, the server takes exactly the
\* payloads written, each once and in order (no part of a prefix is read as
\* a length, no later byte of a frame as the start of another), and does
\* not give up the connection on a short read.
C28_ChunkedFrameIsReassembled ==
    \A c \in ConnIds :
        ~client[c].closed =>
            /\ conn[c].why # "short_read"
            /\ Len(decoded[c]) <= Len(frames_sent[c])
            /\ \A i \in DOMAIN decoded[c] : decoded[c][i] = frames_sent[c][i]

\* the message is the bot's own, or from a channel other than the configured
\* one
OwnOrOffChannel(msg) ==
    \/ msg.author = BotUser
    \/ (channel_id # 0 /\ msg.channel # channel_id)

\* C30: an inbound message of the bot itself, or (with a channel configured)
\* from another channel, is handed to no consumer: no handler is called for
\* it, nothing is routed, launched or sent for it, and neither the console
\* nor the output file ever shows a line of the bot; so the echo of a reply
\* starts no further execution and no further output.
C30_OwnMessagesReachNoConsumer ==
    /\ \A m \in MsgIds :
          (dispatch[m].st # "none" /\ OwnOrOffChannel(inbound[m])) =>
              /\ dispatch[m].st = "filtered"
              /\ invoked[m] = <<>>
              /\ routed[m] = NotRouted
    /\ BotUser \notin Range(stdout)
    /\ BotUser \notin Range(output_file.content)
    /\ Len(sent) <= Cardinality({m \in MsgIds : inbound[m].author \notin {"-", BotUser}})

\* the reply to a command of another user was sent, came back as a message
\* of the bot with a command as its text, and was filtered
C30_Witness ==
    \E m1, m2 \in MsgIds :
        /\ inbound[m1].author = "alice"
        /\ routed[m1].sends = 1
        /\ dispatch[m1].st = "done"
        /\ inbound[m2] = [author |-> BotUser, channel |-> channel_id, text |-> ScriptPrints]
        /\ dispatch[m2].st = "filtered"
        /\ sent = <<ScriptPrints>>

\* C32: a stop() of the socket adapter removes a file at the socket path
\* only if that file is the socket a preceding start() of this adapter
\* created; with the adapter disabled, so never started, the path is left
\* as it is.
C32_StopRemovesOnlyOwnSocket ==
    [][socket_file' # socket_file =>
          \/ socket_file' = "socket"
          \/ (SocketEnabled /\ sock_starts > 0 /\ socket_file = "socket")]_vars
\* how many times handler h is registered with the dispatcher
Registrations(h) ==
    Cardinality({i \in DOMAIN message_handlers : message_handlers[i] = h})

\* C31: whatever start() and stop() calls were made on the service handler,
\* its consumer is registered with the dispatcher at most once, and every
\* inbound message causes at most one command execution and at most one
\* reply.
C31_ServiceConsumerRegisteredOnce ==
    /\ Registrations("_handle_service_message") <= 1
    /\ \A m \in MsgIds : routed[m].launches <= 1 /\ routed[m].sends <= 1

====
